---------------------------- MODULE Spec2Model ----------------------------
(***************************************************************************)
(* A model of xlsxturbo's value classifier (parse_value), cell writers     *)
(* (write_cell, write_py_value_with_format) and column pattern matcher     *)
(* (matches_pattern, build_column_formats, apply_conditional_formats,      *)
(* apply_validations), of the per-sheet options of dfs_to_xlsx, of the     *)
(* block order of the four conversion entry points, of the sequential and  *)
(* the parallel CSV conversion, of the parsers of cell references and      *)
(* colours and the length test of list validations, of the cells, table    *)
(* and widths that the conversion of one frame leaves on its worksheet,    *)
(* of the command-line binary's write_value, and of the serials of dates   *)
(* and datetimes.                                                          *)
(*                                                                         *)
(* Text is a sequence of one-character strings.  A 64-bit integer is a     *)
(* record [neg, mag] whose mag is the sequence of its decimal digits       *)
(* (most significant first, no leading zero, <<0>> for zero), so that the  *)
(* values around 2^53 and 2^63 keep their exact value.                     *)
(***************************************************************************)
EXTENDS Integers, Sequences, FiniteSets, TLC

(***************************************************************************)
(* Characters                                                              *)
(***************************************************************************)
DigitChars == <<"0", "1", "2", "3", "4", "5", "6", "7", "8", "9">>

IsDigit(c) == \E i \in 1..10 : DigitChars[i] = c

DigitVal(c) == (CHOOSE i \in 1..10 : DigitChars[i] = c) - 1

DigitChar(d) == DigitChars[d + 1]

\* char::is_whitespace for the characters of the model's alphabet
IsWhitespace(c) == c \in {" ", "\t"}

\* u8::to_ascii_lowercase on the letters the model's alphabet holds
ToLowerChar(c) ==
    CASE c = "A" -> "a" [] c = "E" -> "e" [] c = "F" -> "f" [] c = "I" -> "i"
      [] c = "L" -> "l" [] c = "N" -> "n" [] c = "R" -> "r" [] c = "S" -> "s"
      [] c = "T" -> "t" [] c = "U" -> "u" [] c = "Y" -> "y"
      [] OTHER -> c

ToLower(s) == [i \in 1..Len(s) |-> ToLowerChar(s[i])]

\* str::eq_ignore_ascii_case
EqIgnoreAsciiCase(s, t) == ToLower(s) = ToLower(t)

RECURSIVE TrimStart(_)
TrimStart(s) ==
    IF s # <<>> /\ IsWhitespace(Head(s)) THEN TrimStart(Tail(s)) ELSE s

RECURSIVE TrimEnd(_)
TrimEnd(s) ==
    IF s # <<>> /\ IsWhitespace(s[Len(s)])
    THEN TrimEnd(SubSeq(s, 1, Len(s) - 1))
    ELSE s

\* str::trim
Trim(s) == TrimEnd(TrimStart(s))

StartsWith(s, p) == Len(p) <= Len(s) /\ SubSeq(s, 1, Len(p)) = p

EndsWith(s, p) == Len(p) <= Len(s) /\ SubSeq(s, Len(s) - Len(p) + 1, Len(s)) = p

\* str::contains
Contains(s, p) ==
    \E i \in 1..(Len(s) - Len(p) + 1) : SubSeq(s, i, i + Len(p) - 1) = p

(***************************************************************************)
(* Magnitudes: natural numbers as digit sequences                          *)
(***************************************************************************)
RECURSIVE StripZeros(_)
StripZeros(m) ==
    IF Len(m) > 1 /\ m[1] = 0 THEN StripZeros(Tail(m)) ELSE m

MagLess(a, b) ==
    \/ Len(a) < Len(b)
    \/ /\ Len(a) = Len(b)
       /\ \E i \in 1..Len(a) :
            /\ a[i] < b[i]
            /\ \A j \in 1..(i - 1) : a[j] = b[j]

MagLeq(a, b) == a = b \/ MagLess(a, b)

\* 2 * m + carry, digit by digit from the least significant end
RECURSIVE MagDoubleCarry(_, _)
MagDoubleCarry(m, carry) ==
    IF m = <<>>
    THEN IF carry = 0 THEN <<>> ELSE <<carry>>
    ELSE LET d == 2 * m[Len(m)] + carry
         IN  Append(MagDoubleCarry(SubSeq(m, 1, Len(m) - 1), d \div 10), d % 10)

MagDouble(m) == StripZeros(MagDoubleCarry(m, 0))

\* m \div 2, digit by digit from the most significant end
RECURSIVE MagHalfRem(_, _)
MagHalfRem(m, rem) ==
    IF m = <<>>
    THEN <<>>
    ELSE LET d == 10 * rem + Head(m)
         IN  <<d \div 2>> \o MagHalfRem(Tail(m), d % 2)

MagHalf(m) == StripZeros(MagHalfRem(m, 0))

MagOdd(m) == m[Len(m)] % 2 = 1

RECURSIVE MagIncRev(_)
MagIncRev(m) ==
    IF m = <<>>
    THEN <<1>>
    ELSE IF m[Len(m)] < 9
         THEN SubSeq(m, 1, Len(m) - 1) \o <<m[Len(m)] + 1>>
         ELSE Append(MagIncRev(SubSeq(m, 1, Len(m) - 1)), 0)

MagInc(m) == MagIncRev(m)

\* m - 1, for m > 0
RECURSIVE MagDecRev(_)
MagDecRev(m) ==
    IF m[Len(m)] > 0
    THEN SubSeq(m, 1, Len(m) - 1) \o <<m[Len(m)] - 1>>
    ELSE Append(MagDecRev(SubSeq(m, 1, Len(m) - 1)), 9)

MagDec(m) == StripZeros(MagDecRev(m))

\* m << n (m is never empty: the test makes each step evaluate its m)
RECURSIVE MagShl(_, _)
MagShl(m, n) ==
    IF m = <<>> \/ n = 0 THEN m ELSE MagShl(MagDouble(m), n - 1)

\* const MAX_SAFE_INT: i64 = 1 << 53
MAX_SAFE_INT == MagShl(<<1>>, 53)

\* i64::MAX = 2^63 - 1 and |i64::MIN| = 2^63
I64_MIN_MAG == MagShl(<<1>>, 63)

I64_MAX_MAG == MagDec(I64_MIN_MAG)


\* the digits of a run of ASCII digit characters, leading zeros dropped
DigitsOf(s) == StripZeros([i \in 1..Len(s) |-> DigitVal(s[i])])

AllDigits(s) == \A i \in 1..Len(s) : IsDigit(s[i])

\* the decimal text of a magnitude
MagText(m) == [i \in 1..Len(m) |-> DigitChar(m[i])]

\* a magnitude small enough for a machine integer
RECURSIVE MagToNat(_)
MagToNat(m) ==
    IF m = <<>> THEN 0 ELSE 10 * MagToNat(SubSeq(m, 1, Len(m) - 1)) + m[Len(m)]

RECURSIVE NatToMag(_)
NatToMag(n) == IF n < 10 THEN <<n>> ELSE Append(NatToMag(n \div 10), n % 10)

(***************************************************************************)
(* 64-bit signed integers                                                  *)
(***************************************************************************)
I64(neg, mag) == [neg |-> neg /\ mag # <<0>>, mag |-> mag]

I64_MIN == I64(TRUE, I64_MIN_MAG)

InI64Range(neg, mag) ==
    IF neg THEN MagLeq(mag, I64_MIN_MAG) ELSE MagLeq(mag, I64_MAX_MAG)

\* i64::to_string
I64ToString(v) == (IF v.neg THEN <<"-">> ELSE <<>>) \o MagText(v.mag)

\* <i64 as FromStr>::from_str: an optional sign, then one or more digits,
\* failing on any other character and on overflow
ParseI64(s) ==
    LET signed == s # <<>> /\ Head(s) \in {"+", "-"}
        digits == IF signed THEN Tail(s) ELSE s
        neg    == signed /\ Head(s) = "-"
        mag    == DigitsOf(digits)
    IN  IF digits = <<>> \/ ~AllDigits(digits) \/ ~InI64Range(neg, mag)
        THEN [ok |-> FALSE]
        ELSE [ok |-> TRUE, v |-> I64(neg, mag)]

(***************************************************************************)
(* Doubles.  A finite double is [cls |-> "finite", neg, mant, exp]: the    *)
(* number mant * 10^exp, mant without trailing zeros.  An integral value   *)
(* is rounded to 53 significant bits exactly; a value with a fractional    *)
(* part stands for the double nearest to it.                               *)
(***************************************************************************)
RECURSIVE StripTrailingZeros(_)
StripTrailingZeros(m) ==
    IF Len(m) > 1 /\ m[Len(m)] = 0
    THEN StripTrailingZeros(SubSeq(m, 1, Len(m) - 1))
    ELSE m

TrailingZeros(m) == Len(m) - Len(StripTrailingZeros(m))

Zeros(n) == [i \in 1..n |-> 0]

\* m shifted right until it has at most 53 bits, rounding half to even:
\* guard is the last bit shifted out, sticky the OR of the bits before it
\* (the first test makes each step evaluate its arguments)
RECURSIVE RoundShift(_, _, _, _)
RoundShift(m, k, guard, sticky) ==
    IF k < 0 \/ guard \notin 0..1 \/ sticky \notin 0..1 THEN m
    ELSE IF MagLess(m, MAX_SAFE_INT)
    THEN LET up == guard = 1 /\ (sticky = 1 \/ MagOdd(m))
         IN  MagShl(IF up THEN MagInc(m) ELSE m, k)
    ELSE RoundShift(MagHalf(m), k + 1,
                    IF MagOdd(m) THEN 1 ELSE 0,
                    IF guard = 1 \/ sticky = 1 THEN 1 ELSE 0)

\* the magnitude of (m as f64)
RoundToF64Mag(m) == RoundShift(m, 0, 0, 0)

\* The first 21 of the 309 digits of 2^1024 - 2^970, the least magnitude that
\* rounds to infinity; the digits after them are not all zero.
F64_OVERFLOW_PREFIX ==
    <<1, 7, 9, 7, 6, 9, 3, 1, 3, 4, 8, 6, 2, 3, 1, 5, 8, 0, 7, 9, 3>>

F64Finite(neg, mant, exp) ==
    LET m == StripZeros(mant)
    IN  IF m = <<0>>
        THEN [cls |-> "finite", neg |-> neg, mant |-> <<0>>, exp |-> 0]
        ELSE [cls |-> "finite", neg |-> neg,
              mant |-> StripTrailingZeros(m), exp |-> exp + TrailingZeros(m)]

F64Inf(neg) == [cls |-> "inf", neg |-> neg]

F64NaN == [cls |-> "nan"]

\* v as f64, for an i64 v
I64AsF64(v) == F64Finite(v.neg, RoundToF64Mag(v.mag), 0)

IsNaN(f) == f.cls = "nan"

IsInfinite(f) == f.cls = "inf"


RECURSIVE DigitPrefixLen(_)
DigitPrefixLen(s) ==
    IF s # <<>> /\ IsDigit(Head(s)) THEN 1 + DigitPrefixLen(Tail(s)) ELSE 0

Drop(s, n) == SubSeq(s, n + 1, Len(s))

Take(s, n) == SubSeq(s, 1, n)

\* mant * 10^exp as a double: overflow to infinity, underflow to zero, an
\* integral value of at most 20 digits rounded to 53 bits
F64FromDecimal(neg, mant, exp) ==
    LET m0    == StripZeros(mant)
        m     == StripTrailingZeros(m0)
        e     == exp + TrailingZeros(m0)
        order == Len(m) + e
        m21   == Take(m \o Zeros(21), 21)
    IN  IF m = <<0>> THEN F64Finite(neg, <<0>>, 0)
        ELSE IF order > 309 \/ (order = 309 /\ MagLess(F64_OVERFLOW_PREFIX, m21))
        THEN F64Inf(neg)
        ELSE IF order < -323 THEN F64Finite(neg, <<0>>, 0)
        ELSE IF e >= 0 /\ order <= 20
        THEN F64Finite(neg, RoundToF64Mag(m \o Zeros(e)), 0)
        ELSE F64Finite(neg, m, e)

\* the decimal exponent after 'e': sign, digits, saturating
ExpValue(neg, digits) ==
    LET m == DigitsOf(digits)
        n == IF Len(m) > 6 THEN 999999 ELSE MagToNat(m)
    IN  IF neg THEN 0 - n ELSE n

\* <f64 as FromStr>::from_str:
\*   Float  ::= Sign? ( 'inf' | 'infinity' | 'nan' | Number )
\*   Number ::= ( Digit+ | Digit+ '.' Digit* | Digit* '.' Digit+ ) Exp?
\*   Exp    ::= 'e' Sign? Digit+
ParseF64(s) ==
    LET signed  == s # <<>> /\ Head(s) \in {"+", "-"}
        neg     == signed /\ Head(s) = "-"
        body    == IF signed THEN Tail(s) ELSE s
        nInt    == DigitPrefixLen(body)
        int     == Take(body, nInt)
        r1      == Drop(body, nInt)
        hasDot  == r1 # <<>> /\ Head(r1) = "."
        r2      == IF hasDot THEN Tail(r1) ELSE r1
        nFrac   == IF hasDot THEN DigitPrefixLen(r2) ELSE 0
        frac    == Take(r2, nFrac)
        r3      == Drop(r2, nFrac)
        hasExp  == r3 # <<>> /\ Head(r3) \in {"e", "E"}
        r4      == IF hasExp THEN Tail(r3) ELSE r3
        eSigned == hasExp /\ r4 # <<>> /\ Head(r4) \in {"+", "-"}
        eNeg    == eSigned /\ Head(r4) = "-"
        r5      == IF eSigned THEN Tail(r4) ELSE r4
        nExp    == IF hasExp THEN DigitPrefixLen(r5) ELSE 0
        rest    == Drop(r5, nExp)
        number  == /\ nInt + nFrac >= 1
                   /\ hasExp => nExp >= 1
                   /\ rest = <<>>
        low     == ToLower(body)
    IN  IF body = <<>> THEN [ok |-> FALSE]
        ELSE IF number
        THEN [ok |-> TRUE,
              f  |-> F64FromDecimal(neg, DigitsOf(int \o frac),
                       (IF hasExp THEN ExpValue(eNeg, Take(r5, nExp)) ELSE 0)
                         - nFrac)]
        ELSE IF low = <<"n", "a", "n">> THEN [ok |-> TRUE, f |-> F64NaN]
        ELSE IF low \in {<<"i", "n", "f">>,
                         <<"i", "n", "f", "i", "n", "i", "t", "y">>}
        THEN [ok |-> TRUE, f |-> F64Inf(neg)]
        ELSE [ok |-> FALSE]

(***************************************************************************)
(* Date patterns (types.rs) and chrono's parser                            *)
(***************************************************************************)
\* "%Y-%m-%d", "%Y/%m/%d"
DATE_PATTERNS_ISO ==
    << <<"%", "Y", "-", "%", "m", "-", "%", "d">>,
       <<"%", "Y", "/", "%", "m", "/", "%", "d">> >>

\* "%d-%m-%Y", "%d/%m/%Y"
DATE_PATTERNS_DMY ==
    << <<"%", "d", "-", "%", "m", "-", "%", "Y">>,
       <<"%", "d", "/", "%", "m", "/", "%", "Y">> >>

\* "%m-%d-%Y", "%m/%d/%Y"
DATE_PATTERNS_MDY ==
    << <<"%", "m", "-", "%", "d", "-", "%", "Y">>,
       <<"%", "m", "/", "%", "d", "/", "%", "Y">> >>

DateOrders == {"Auto", "MDY", "DMY"}

\* DateOrder::patterns with the ISO patterns tried after the others
patterns_iso_last(date_order) ==
    (IF date_order \in {"Auto", "DMY"}
     THEN DATE_PATTERNS_DMY \o DATE_PATTERNS_MDY
     ELSE DATE_PATTERNS_MDY \o DATE_PATTERNS_DMY) \o DATE_PATTERNS_ISO

\* DateOrder::patterns with Auto resolved like MDY
patterns_auto_mdy(date_order) ==
    DATE_PATTERNS_ISO \o
      (IF date_order = "DMY"
       THEN DATE_PATTERNS_DMY \o DATE_PATTERNS_MDY
       ELSE DATE_PATTERNS_MDY \o DATE_PATTERNS_DMY)

\* DateOrder::patterns
patterns(date_order) ==
    DATE_PATTERNS_ISO \o
      (IF date_order \in {"Auto", "DMY"}
       THEN DATE_PATTERNS_DMY \o DATE_PATTERNS_MDY
       ELSE DATE_PATTERNS_MDY \o DATE_PATTERNS_DMY)

YmdPattern == <<"%", "Y", "-", "%", "m", "-", "%", "d">>

HmsPattern == <<"%", "H", ":", "%", "M", ":", "%", "S">>

\* "%Y-%m-%dT%H:%M:%S", "%Y-%m-%d %H:%M:%S",
\* "%Y-%m-%dT%H:%M:%S%.f", "%Y-%m-%d %H:%M:%S%.f"
DATETIME_PATTERNS ==
    << YmdPattern \o <<"T">> \o HmsPattern,
       YmdPattern \o <<" ">> \o HmsPattern,
       YmdPattern \o <<"T">> \o HmsPattern \o <<"%", ".", "f">>,
       YmdPattern \o <<" ">> \o HmsPattern \o <<"%", ".", "f">> >>

\* chrono::format::StrftimeItems: the items of a pattern
RECURSIVE StrftimeItems(_)
StrftimeItems(p) ==
    IF p = <<>> THEN <<>>
    ELSE IF Len(p) >= 3 /\ Take(p, 3) = <<"%", ".", "f">>
    THEN <<[t |-> "nano"]>> \o StrftimeItems(Drop(p, 3))
    ELSE IF Len(p) >= 2 /\ Head(p) = "%"
    THEN <<[t |-> "num", spec |-> p[2]]>> \o StrftimeItems(Drop(p, 2))
    ELSE IF IsWhitespace(Head(p))
    THEN <<[t |-> "space"]>> \o StrftimeItems(Tail(p))
    ELSE <<[t |-> "lit", c |-> Head(p)]>> \o StrftimeItems(Tail(p))

\* chrono::format::parse, numeric items: Year is (4, signed), the others (2, unsigned)
NumWidth(spec) == IF spec = "Y" THEN 4 ELSE 2

NumSigned(spec) == spec = "Y"

Min(a, b) == IF a < b THEN a ELSE b

NoFields == [k \in {"Y", "m", "d", "H", "M", "S"} |-> 0]

\* chrono::format::parse::parse_internal followed by the end-of-input test:
\* a literal must match; a space item and a numeric item skip whitespace; a
\* numeric item takes 1..width digits (any number after an explicit sign);
\* %.f takes nothing, or '.' and at least one digit
RECURSIVE ChronoParse(_, _, _)
ChronoParse(items, s, parsed) ==
    IF items = <<>>
    THEN IF s = <<>> THEN [ok |-> TRUE, parsed |-> parsed] ELSE [ok |-> FALSE]
    ELSE LET it == Head(items)
         IN  IF it.t = "lit"
             THEN IF s # <<>> /\ Head(s) = it.c
                  THEN ChronoParse(Tail(items), Tail(s), parsed)
                  ELSE [ok |-> FALSE]
             ELSE IF it.t = "space"
             THEN ChronoParse(Tail(items), TrimStart(s), parsed)
             ELSE IF it.t = "nano"
             THEN IF s # <<>> /\ Head(s) = "."
                  THEN LET n == DigitPrefixLen(Tail(s))
                       IN  IF n < 1 THEN [ok |-> FALSE]
                           ELSE ChronoParse(Tail(items), Drop(Tail(s), n), parsed)
                  ELSE ChronoParse(Tail(items), s, parsed)
             ELSE LET t      == TrimStart(s)
                      signed == /\ NumSigned(it.spec)
                                /\ t # <<>> /\ Head(t) \in {"+", "-"}
                      body   == IF signed THEN Tail(t) ELSE t
                      avail  == DigitPrefixLen(body)
                      n      == IF signed THEN avail
                                ELSE Min(avail, NumWidth(it.spec))
                      mag    == DigitsOf(Take(body, n))
                      val    == IF signed /\ Head(t) = "-"
                                THEN 0 - MagToNat(mag) ELSE MagToNat(mag)
                 IN  IF n < 1 \/ Len(mag) > 6 THEN [ok |-> FALSE]
                     ELSE ChronoParse(Tail(items), Drop(body, n),
                                      [parsed EXCEPT ![it.spec] = val])

IsLeapYear(y) == y % 4 = 0 /\ (y % 100 # 0 \/ y % 400 = 0)

DaysInMonth(y, m) ==
    IF m = 2 THEN (IF IsLeapYear(y) THEN 29 ELSE 28)
    ELSE IF m \in {4, 6, 9, 11} THEN 30 ELSE 31

\* NaiveDate::from_ymd_opt(y, m, d).is_some()
ValidYmd(y, m, d) ==
    /\ y \in -262143..262142
    /\ m \in 1..12
    /\ d \in 1..DaysInMonth(y, m)

\* NaiveTime from the parsed fields: a second of 60 is a leap second
ValidHms(h, mi, sec) == h \in 0..23 /\ mi \in 0..59 /\ sec \in 0..60

\* days from 1970-01-01 to y-m-d in the proleptic Gregorian calendar
DaysFromCivil(y, m, d) ==
    LET yy  == IF m <= 2 THEN y - 1 ELSE y
        era == yy \div 400
        yoe == yy - era * 400
        mp  == IF m > 2 THEN m - 3 ELSE m + 9
        doy == (153 * mp + 2) \div 5 + d - 1
        doe == yoe * 365 + yoe \div 4 - yoe \div 100 + doy
    IN  era * 146097 + doe - 719468

\* NaiveDate::parse_from_str(s, pattern)
NaiveDateParse(s, pattern) ==
    LET r == ChronoParse(StrftimeItems(pattern), s, NoFields)
    IN  IF r.ok /\ ValidYmd(r.parsed["Y"], r.parsed["m"], r.parsed["d"])
        THEN [ok |-> TRUE,
              date |-> [y |-> r.parsed["Y"], m |-> r.parsed["m"], d |-> r.parsed["d"]]]
        ELSE [ok |-> FALSE]

\* NaiveDateTime::parse_from_str(s, pattern); secs is num_seconds_from_midnight
NaiveDateTimeParse(s, pattern) ==
    LET r == ChronoParse(StrftimeItems(pattern), s, NoFields)
    IN  IF /\ r.ok
           /\ ValidYmd(r.parsed["Y"], r.parsed["m"], r.parsed["d"])
           /\ ValidHms(r.parsed["H"], r.parsed["M"], r.parsed["S"])
        THEN [ok |-> TRUE,
              date |-> [y |-> r.parsed["Y"], m |-> r.parsed["m"], d |-> r.parsed["d"]],
              secs |-> r.parsed["H"] * 3600 + r.parsed["M"] * 60
                         + Min(r.parsed["S"], 59)]
        ELSE [ok |-> FALSE]

\* A serial date is days + secs / 86400
Serial(days, secs) == [days |-> days, secs |-> secs]

\* naive_date_to_excel counting from 1899-12-31, the day before serial 1
naive_date_to_excel_from_dec_31(date) ==
    DaysFromCivil(date.y, date.m, date.d) - DaysFromCivil(1899, 12, 31)

\* naive_date_to_excel: days since 1899-12-30
naive_date_to_excel(date) ==
    DaysFromCivil(date.y, date.m, date.d) - DaysFromCivil(1899, 12, 30)

\* naive_datetime_to_excel
naive_datetime_to_excel(dt) == Serial(naive_date_to_excel(dt.date), dt.secs)

(***************************************************************************)
(* CellValue (types.rs) and parse_value (parse.rs)                         *)
(***************************************************************************)
Empty == [kind |-> "Empty"]

Integer(v) == [kind |-> "Integer", v |-> v]

Float(f) == [kind |-> "Float", v |-> f]

Boolean(b) == [kind |-> "Boolean", v |-> b]

Date(serial) == [kind |-> "Date", v |-> serial]

DateTime(serial) == [kind |-> "DateTime", v |-> serial]

String(s) == [kind |-> "String", v |-> s]

\* for pattern in DATETIME_PATTERNS { if let Ok(dt) = ... { return ... } }
RECURSIVE FirstDateTime(_, _)
FirstDateTime(s, pats) ==
    IF pats = <<>> THEN [ok |-> FALSE]
    ELSE LET r == NaiveDateTimeParse(s, Head(pats))
         IN  IF r.ok THEN [ok |-> TRUE, v |-> DateTime(naive_datetime_to_excel(r))]
             ELSE FirstDateTime(s, Tail(pats))

\* for pattern in date_order.patterns() { if let Ok(date) = ... { return ... } }
RECURSIVE FirstDate(_, _)
FirstDate(s, pats) ==
    IF pats = <<>> THEN [ok |-> FALSE]
    ELSE LET r == NaiveDateParse(s, Head(pats))
         IN  IF r.ok
             THEN [ok |-> TRUE, v |-> Date(Serial(naive_date_to_excel(r.date), 0))]
             ELSE FirstDate(s, Tail(pats))

TrueText == <<"t", "r", "u", "e">>

FalseText == <<"f", "a", "l", "s", "e">>

\* parse_value with the f64 attempt made before the i64 attempt
parse_value_float_first(value, date_order) ==
    LET trimmed == Trim(value)
        int     == ParseI64(trimmed)
        float   == ParseF64(trimmed)
        dt      == FirstDateTime(trimmed, DATETIME_PATTERNS)
        date    == FirstDate(trimmed, patterns(date_order))
    IN  IF trimmed = <<>> THEN Empty
        ELSE IF float.ok
        THEN IF IsNaN(float.f) \/ IsInfinite(float.f) THEN Empty
             ELSE Float(float.f)
        ELSE IF int.ok THEN Integer(int.v)
        ELSE IF EqIgnoreAsciiCase(trimmed, TrueText) THEN Boolean(TRUE)
        ELSE IF EqIgnoreAsciiCase(trimmed, FalseText) THEN Boolean(FALSE)
        ELSE IF dt.ok THEN dt.v
        ELSE IF date.ok THEN date.v
        ELSE String(trimmed)

\* parse_value without the is_nan / is_infinite test
parse_value_keep_nan(value, date_order) ==
    LET trimmed == Trim(value)
        int     == ParseI64(trimmed)
        float   == ParseF64(trimmed)
        dt      == FirstDateTime(trimmed, DATETIME_PATTERNS)
        date    == FirstDate(trimmed, patterns(date_order))
    IN  IF trimmed = <<>> THEN Empty
        ELSE IF int.ok THEN Integer(int.v)
        ELSE IF float.ok THEN Float(float.f)
        ELSE IF EqIgnoreAsciiCase(trimmed, TrueText) THEN Boolean(TRUE)
        ELSE IF EqIgnoreAsciiCase(trimmed, FalseText) THEN Boolean(FALSE)
        ELSE IF dt.ok THEN dt.v
        ELSE IF date.ok THEN date.v
        ELSE String(trimmed)

\* parse.rs parse_value
parse_value(value, date_order) ==
    LET trimmed == Trim(value)
        int     == ParseI64(trimmed)
        float   == ParseF64(trimmed)
        dt      == FirstDateTime(trimmed, DATETIME_PATTERNS)
        date    == FirstDate(trimmed, patterns(date_order))
    IN  IF trimmed = <<>> THEN Empty
        ELSE IF int.ok THEN Integer(int.v)
        ELSE IF float.ok
        THEN IF IsNaN(float.f) \/ IsInfinite(float.f) THEN Empty
             ELSE Float(float.f)
        ELSE IF EqIgnoreAsciiCase(trimmed, TrueText) THEN Boolean(TRUE)
        ELSE IF EqIgnoreAsciiCase(trimmed, FalseText) THEN Boolean(FALSE)
        ELSE IF dt.ok THEN dt.v
        ELSE IF date.ok THEN date.v
        ELSE String(trimmed)

(***************************************************************************)
(* The worksheet sink and the cell writers (convert.rs, lib.rs)            *)
(***************************************************************************)
NoFormat == "none"

WriteNumber(v, fmt) == [op |-> "number", v |-> v, fmt |-> fmt]

WriteString(s, fmt) == [op |-> "string", v |-> s, fmt |-> fmt]

WriteBoolean(b) == [op |-> "boolean", v |-> b, fmt |-> NoFormat]

\* the call does not return: the thread panics
Panicked == [op |-> "panic"]

\* i64::abs: |i64::MIN| does not fit; the build decides whether the overflow
\* panics (overflow checks on) or wraps to i64::MIN (overflow checks off)
I64Abs(v) ==
    IF v = I64_MIN
    THEN {[panic |-> TRUE], [panic |-> FALSE, v |-> I64_MIN]}
    ELSE {[panic |-> FALSE, v |-> I64(FALSE, v.mag)]}

\* a > MAX_SAFE_INT, as signed integers
GreaterThanMaxSafe(a) == ~a.neg /\ MagLess(MAX_SAFE_INT, a.mag)

\* convert.rs write_cell: the set of worksheet calls it can end in
write_cell(value) ==
    IF value.kind = "Empty" THEN {WriteString(<<>>, NoFormat)}
    ELSE IF value.kind = "Integer"
    THEN {IF a.panic THEN Panicked
          ELSE IF GreaterThanMaxSafe(a.v)
               THEN WriteString(I64ToString(value.v), NoFormat)
               ELSE WriteNumber(I64AsF64(value.v), NoFormat) : a \in I64Abs(value.v)}
    ELSE IF value.kind = "Float" THEN {WriteNumber(value.v, NoFormat)}
    ELSE IF value.kind = "Boolean" THEN {WriteBoolean(value.v)}
    ELSE IF value.kind = "Date" THEN {WriteNumber(value.v, "date_format")}
    ELSE IF value.kind = "DateTime" THEN {WriteNumber(value.v, "datetime_format")}
    ELSE {WriteString(value.v, NoFormat)}

\* lib.rs write_cell
lib_write_cell(value) ==
    IF value.kind = "Empty" THEN {WriteString(<<>>, NoFormat)}
    ELSE IF value.kind = "Integer" THEN {WriteNumber(I64AsF64(value.v), NoFormat)}
    ELSE IF value.kind = "Float" THEN {WriteNumber(value.v, NoFormat)}
    ELSE IF value.kind = "Boolean" THEN {WriteBoolean(value.v)}
    ELSE IF value.kind = "Date" THEN {WriteNumber(value.v, "date_format")}
    ELSE IF value.kind = "DateTime" THEN {WriteNumber(value.v, "datetime_format")}
    ELSE {WriteString(value.v, NoFormat)}

\* main.rs write_value: the command-line binary classifies the field as it
\* was read, without trimming, and writes it at once
write_value(value) ==
    LET int_val   == ParseI64(value)
        float_val == ParseF64(value)
    IN  IF value = <<>> THEN {WriteString(<<>>, NoFormat)}
        ELSE IF int_val.ok THEN {WriteNumber(I64AsF64(int_val.v), NoFormat)}
        ELSE IF float_val.ok
        THEN IF IsNaN(float_val.f) \/ IsInfinite(float_val.f)
             THEN {WriteString(<<>>, NoFormat)}
             ELSE {WriteNumber(float_val.f, NoFormat)}
        ELSE IF EqIgnoreAsciiCase(value, TrueText) THEN {WriteBoolean(TRUE)}
        ELSE IF EqIgnoreAsciiCase(value, FalseText) THEN {WriteBoolean(FALSE)}
        ELSE {WriteString(value, NoFormat)}

(***************************************************************************)
(* Host values.  A value is described by what the probes of                *)
(* write_py_value_with_format see: is_none, the type name, the casts to    *)
(* PyBool / PyInt / PyFloat / PyString and the extractions to i64, f64 and *)
(* bool.                                                                   *)
(***************************************************************************)
NoExtract == [ok |-> FALSE]

PyBase ==
    [is_none |-> FALSE, type_name |-> "object", pybool |-> FALSE,
     pyint |-> FALSE, pyfloat |-> FALSE, pystr |-> FALSE,
     i64 |-> NoExtract, f64 |-> NoExtract, bool |-> NoExtract,
     fields |-> NoFields, str |-> <<>>]

PyNone == [PyBase EXCEPT !.is_none = TRUE, !.type_name = "NoneType"]

\* pandas.NA ("NAType") and pandas.NaT ("NaTType")
PyNA(name) == [PyBase EXCEPT !.type_name = name]

\* bool is a subclass of int
PyBoolValue(b) ==
    [PyBase EXCEPT !.type_name = "bool", !.pybool = TRUE, !.pyint = TRUE,
                   !.bool = [ok |-> TRUE, v |-> b],
                   !.i64 = [ok |-> TRUE, v |-> I64(FALSE, IF b THEN <<1>> ELSE <<0>>)]]

\* a Python int of any size: the extraction to i64 fails out of range, the
\* extraction to f64 gives the nearest double
PyIntValue(neg, mag) ==
    [PyBase EXCEPT !.type_name = "int", !.pyint = TRUE,
                   !.i64 = IF InI64Range(neg, mag)
                           THEN [ok |-> TRUE, v |-> I64(neg, mag)]
                           ELSE NoExtract,
                   !.f64 = IF IsInfinite(F64FromDecimal(neg, mag, 0))
                           THEN NoExtract
                           ELSE [ok |-> TRUE, v |-> F64FromDecimal(neg, mag, 0)],
                   !.str = (IF neg THEN <<"-">> ELSE <<>>) \o MagText(mag)]

PyFloatValue(f) ==
    [PyBase EXCEPT !.type_name = "float", !.pyfloat = TRUE,
                   !.f64 = [ok |-> TRUE, v |-> f]]

\* numpy.int64: not a PyInt, extracts to i64
NumpyIntValue(neg, mag) ==
    [PyBase EXCEPT !.type_name = "int64",
                   !.i64 = [ok |-> TRUE, v |-> I64(neg, mag)],
                   !.f64 = [ok |-> TRUE, v |-> I64AsF64(I64(neg, mag))],
                   !.str = I64ToString(I64(neg, mag))]

\* numpy.float32: not a PyFloat, extracts to f64
NumpyFloatValue(f) ==
    [PyBase EXCEPT !.type_name = "float32", !.f64 = [ok |-> TRUE, v |-> f]]

PyStrValue(s) == [PyBase EXCEPT !.type_name = "str", !.pystr = TRUE, !.str = s]

\* datetime.datetime ("datetime") and pandas.Timestamp ("Timestamp")
PyDateTimeValue(name, y, m, d, h, mi, sec) ==
    [PyBase EXCEPT !.type_name = name,
                   !.fields = [Y |-> y, m |-> m, d |-> d, H |-> h, M |-> mi, S |-> sec]]

\* datetime.date
PyDateValue(y, m, d) ==
    [PyBase EXCEPT !.type_name = "date",
                   !.fields = [NoFields EXCEPT !["Y"] = y, !["m"] = m, !["d"] = d]]

\* any other object: written as its str()
PyObjectValue(s) == [PyBase EXCEPT !.str = s]

\* A column_format of NoFormat is None: the writer then calls write_string /
\* write_number, and write_*_with_format(.., fmt) otherwise.

\* the integer branches of write_py_value_with_format (lines 345-369, 398-419)
write_py_integer(val, column_format) ==
    {IF a.panic THEN Panicked
     ELSE IF GreaterThanMaxSafe(a.v)
          THEN WriteString(I64ToString(val), column_format)
          ELSE WriteNumber(I64AsF64(val), column_format)
       : a \in I64Abs(val)}

\* the float branches of write_py_value_with_format (lines 372-395, 422-443)
write_py_float(val, column_format) ==
    IF IsNaN(val) \/ IsInfinite(val)
    THEN {WriteString(<<>>, column_format)}
    ELSE {WriteNumber(val, column_format)}

\* convert.rs write_py_value_with_format: the set of worksheet calls it can end in
write_py_value_with_format(value, column_format) ==
    LET f        == value.fields
        datetime == /\ value.type_name \in {"datetime", "Timestamp"}
                    /\ ValidYmd(f["Y"], f["m"], f["d"])
                    /\ f["H"] \in 0..23 /\ f["M"] \in 0..59 /\ f["S"] \in 0..59
        date     == /\ value.type_name = "date"
                    /\ ValidYmd(f["Y"], f["m"], f["d"])
        ymd      == [y |-> f["Y"], m |-> f["m"], d |-> f["d"]]
    IN  IF value.is_none \/ value.type_name \in {"NAType", "NaTType"}
        THEN {WriteString(<<>>, column_format)}
        ELSE IF value.pybool THEN {WriteBoolean(value.bool.v)}
        ELSE IF datetime
        THEN {WriteNumber(
                naive_datetime_to_excel(
                  [date |-> ymd, secs |-> f["H"] * 3600 + f["M"] * 60 + f["S"]]),
                IF column_format # NoFormat THEN column_format ELSE "datetime_format")}
        ELSE IF date
        THEN {WriteNumber(Serial(naive_date_to_excel(ymd), 0),
                IF column_format # NoFormat THEN column_format ELSE "date_format")}
        ELSE IF value.pyint /\ value.i64.ok
        THEN write_py_integer(value.i64.v, column_format)
        ELSE IF value.pyfloat /\ value.f64.ok
        THEN write_py_float(value.f64.v, column_format)
        ELSE IF value.i64.ok THEN write_py_integer(value.i64.v, column_format)
        ELSE IF value.f64.ok THEN write_py_float(value.f64.v, column_format)
        ELSE IF value.bool.ok THEN {WriteBoolean(value.bool.v)}
        ELSE {WriteString(value.str, column_format)}

(***************************************************************************)
(* Column patterns (parse.rs, lib.rs) and the pattern-keyed maps           *)
(* (parse.rs build_column_formats, features.rs apply_conditional_formats   *)
(* and apply_validations).  A pattern-keyed IndexMap is the sequence of    *)
(* its <<pattern, config>> entries in insertion order.                     *)
(***************************************************************************)
\* matches_pattern with a leading '*' read as "contains"
matches_pattern_suffix_as_contains(column_name, pattern) ==
    LET starts_with_star == StartsWith(pattern, <<"*">>)
        ends_with_star   == EndsWith(pattern, <<"*">>)
    IN  IF starts_with_star /\ ends_with_star
        THEN IF Len(pattern) <= 2 THEN TRUE
             ELSE Contains(column_name, SubSeq(pattern, 2, Len(pattern) - 1))
        ELSE IF starts_with_star THEN Contains(column_name, Tail(pattern))
        ELSE IF ends_with_star
        THEN StartsWith(column_name, SubSeq(pattern, 1, Len(pattern) - 1))
        ELSE column_name = pattern

\* parse.rs matches_pattern
matches_pattern(column_name, pattern) ==
    LET starts_with_star == StartsWith(pattern, <<"*">>)
        ends_with_star   == EndsWith(pattern, <<"*">>)
    IN  IF starts_with_star /\ ends_with_star
        THEN IF Len(pattern) <= 2 THEN TRUE
             ELSE Contains(column_name, SubSeq(pattern, 2, Len(pattern) - 1))
        ELSE IF starts_with_star THEN EndsWith(column_name, Tail(pattern))
        ELSE IF ends_with_star
        THEN StartsWith(column_name, SubSeq(pattern, 1, Len(pattern) - 1))
        ELSE column_name = pattern

\* lib.rs matches_pattern: &pattern[1..pattern.len() - 1] panics when the
\* pattern is the one character "*" (the slice would begin after its end)
lib_matches_pattern(column_name, pattern) ==
    LET starts_with_star == StartsWith(pattern, <<"*">>)
        ends_with_star   == EndsWith(pattern, <<"*">>)
    IN  IF starts_with_star /\ ends_with_star
        THEN IF 1 > Len(pattern) - 1 THEN [panic |-> TRUE]
             ELSE [panic |-> FALSE,
                   v |-> Contains(column_name, SubSeq(pattern, 2, Len(pattern) - 1))]
        ELSE IF starts_with_star
        THEN [panic |-> FALSE, v |-> EndsWith(column_name, Tail(pattern))]
        ELSE IF ends_with_star
        THEN [panic |-> FALSE,
              v |-> StartsWith(column_name, SubSeq(pattern, 1, Len(pattern) - 1))]
        ELSE [panic |-> FALSE, v |-> column_name = pattern]

UpperLetters ==
    <<"A", "B", "C", "D", "E", "F", "G", "H", "I", "J", "K", "L", "M",
      "N", "O", "P", "Q", "R", "S", "T", "U", "V", "W", "X", "Y", "Z">>

LowerLetters ==
    <<"a", "b", "c", "d", "e", "f", "g", "h", "i", "j", "k", "l", "m",
      "n", "o", "p", "q", "r", "s", "t", "u", "v", "w", "x", "y", "z">>

IsIn(letters, c) == \E i \in 1..Len(letters) : letters[i] = c

IndexIn(letters, c) == CHOOSE i \in 1..Len(letters) : letters[i] = c

\* char::is_ascii_alphabetic
IsAsciiAlphabetic(c) == IsIn(UpperLetters, c) \/ IsIn(LowerLetters, c)

\* str::to_lowercase on the characters of the model's alphabet
to_lowercase(s) ==
    [i \in 1..Len(s) |->
        IF IsIn(UpperLetters, s[i]) THEN LowerLetters[IndexIn(UpperLetters, s[i])]
        ELSE s[i]]

\* str::to_uppercase on the characters of the model's alphabet: the
\* uppercase of U+00DF is the two letters SS
RECURSIVE to_uppercase(_)
to_uppercase(s) ==
    IF s = <<>> THEN <<>>
    ELSE (IF IsIn(LowerLetters, Head(s))
          THEN <<UpperLetters[IndexIn(LowerLetters, Head(s))]>>
          ELSE IF Head(s) = "ß" THEN <<"S", "S">>
          ELSE <<Head(s)>>) \o to_uppercase(Tail(s))

\* the length of a character in UTF-8
Utf8Len(c) == IF c \in {"ß", "é"} THEN 2 ELSE IF c = "€" THEN 3 ELSE 1

\* str::len: the length in bytes, one for each character and one more for
\* each byte a character has beyond its first
StrLen(s) ==
    Len(s) + Cardinality({i \in 1..Len(s) : Utf8Len(s[i]) >= 2})
           + Cardinality({i \in 1..Len(s) : Utf8Len(s[i]) >= 3})

HexDigitChars ==
    <<"0", "1", "2", "3", "4", "5", "6", "7", "8", "9", "a", "b", "c", "d", "e", "f">>

IsHexDigit(c) == IsIn(HexDigitChars, to_lowercase(<<c>>)[1])

HexVal(c) == IndexIn(HexDigitChars, to_lowercase(<<c>>)[1]) - 1

RECURSIVE HexFold(_, _)
HexFold(digits, acc) ==
    IF digits = <<>> THEN acc ELSE HexFold(Tail(digits), 16 * acc + HexVal(Head(digits)))

\* u32::from_str_radix(src, 16) for a src of at most six bytes: an optional
\* '+', then one or more digits
from_str_radix_16(src) ==
    LET digits == IF src # <<>> /\ Head(src) = "+" THEN Tail(src) ELSE src
    IN  IF digits = <<>> \/ \E i \in 1..Len(digits) : ~IsHexDigit(digits[i])
        THEN [ok |-> FALSE]
        ELSE [ok |-> TRUE, v |-> HexFold(digits, 0)]

\* the match of parse_color: name and 0xRRGGBB
NamedColors ==
    << <<(<<"w", "h", "i", "t", "e">>), 16777215>>,
       <<(<<"b", "l", "a", "c", "k">>), 0>>,
       <<(<<"r", "e", "d">>), 16711680>>,
       <<(<<"g", "r", "e", "e", "n">>), 65280>>,
       <<(<<"b", "l", "u", "e">>), 255>>,
       <<(<<"y", "e", "l", "l", "o", "w">>), 16776960>>,
       <<(<<"c", "y", "a", "n">>), 65535>>,
       <<(<<"m", "a", "g", "e", "n", "t", "a">>), 16711935>>,
       <<(<<"g", "r", "a", "y">>), 8421504>>,
       <<(<<"g", "r", "e", "y">>), 8421504>>,
       <<(<<"s", "i", "l", "v", "e", "r">>), 12632256>>,
       <<(<<"o", "r", "a", "n", "g", "e">>), 16753920>>,
       <<(<<"p", "u", "r", "p", "l", "e">>), 8388736>>,
       <<(<<"n", "a", "v", "y">>), 128>>,
       <<(<<"t", "e", "a", "l">>), 32896>>,
       <<(<<"m", "a", "r", "o", "o", "n">>), 8388608>> >>

\* parse.rs parse_color
parse_color(color_str) ==
    LET color == Trim(color_str)
    IN  IF color # <<>> /\ Head(color) = "#"
        THEN IF StrLen(Tail(color)) # 6 THEN [ok |-> FALSE]
             ELSE from_str_radix_16(Tail(color))
        ELSE IF \E n \in 1..Len(NamedColors) : NamedColors[n][1] = to_lowercase(color)
        THEN [ok |-> TRUE,
              v |-> NamedColors[CHOOSE n \in 1..Len(NamedColors) :
                                   NamedColors[n][1] = to_lowercase(color)][2]]
        ELSE [ok |-> FALSE]

\* parse.rs parse_column_format, for a dict holding a bg_color
parse_column_format(fmt_dict) ==
    LET color == parse_color(fmt_dict.bg_color)
    IN  IF color.ok THEN [ok |-> TRUE, v |-> [background_color |-> color.v]]
        ELSE [ok |-> FALSE]

None == [some |-> FALSE]

Some(v) == [some |-> TRUE, v |-> v]

\* the inner loop of build_column_formats: the first matching pattern, if any
RECURSIVE FirstMatchingFormat(_, _)
FirstMatchingFormat(col_name, column_formats) ==
    IF column_formats = <<>> THEN [ok |-> TRUE, v |-> None]
    ELSE IF matches_pattern(col_name, Head(column_formats)[1])
    THEN LET format == parse_column_format(Head(column_formats)[2])
         IN  IF format.ok THEN [ok |-> TRUE, v |-> Some(format.v)]
             ELSE [ok |-> FALSE]
    ELSE FirstMatchingFormat(col_name, Tail(column_formats))

\* the inner loop without its break: the last matching pattern
RECURSIVE LastMatchingFormat(_, _, _)
LastMatchingFormat(col_name, column_formats, matched_format) ==
    IF column_formats = <<>> THEN [ok |-> TRUE, v |-> matched_format]
    ELSE IF matches_pattern(col_name, Head(column_formats)[1])
    THEN LET format == parse_column_format(Head(column_formats)[2])
         IN  IF format.ok
             THEN LastMatchingFormat(col_name, Tail(column_formats), Some(format.v))
             ELSE [ok |-> FALSE]
    ELSE LastMatchingFormat(col_name, Tail(column_formats), matched_format)

\* build_column_formats with the last matching pattern winning
RECURSIVE build_column_formats_last_match(_, _)
build_column_formats_last_match(columns, column_formats) ==
    IF columns = <<>> THEN [ok |-> TRUE, formats |-> <<>>]
    ELSE LET matched == LastMatchingFormat(Head(columns), column_formats, None)
             rest    == build_column_formats_last_match(Tail(columns), column_formats)
         IN  IF ~matched.ok \/ ~rest.ok THEN [ok |-> FALSE]
             ELSE [ok |-> TRUE, formats |-> <<matched.v>> \o rest.formats]

\* parse.rs build_column_formats: Ok(formats), or the Err of the first format
\* that does not parse
RECURSIVE build_column_formats(_, _)
build_column_formats(columns, column_formats) ==
    IF columns = <<>> THEN [ok |-> TRUE, formats |-> <<>>]
    ELSE LET matched == FirstMatchingFormat(Head(columns), column_formats)
             rest    == build_column_formats(Tail(columns), column_formats)
         IN  IF ~matched.ok \/ ~rest.ok THEN [ok |-> FALSE]
             ELSE [ok |-> TRUE, formats |-> <<matched.v>> \o rest.formats]

\* columns.iter().enumerate().filter(matches_pattern).map(idx): the indices,
\* from 0, of the columns a pattern matches
ColIndices(columns, col_pattern) ==
    LET Matches(idx) == matches_pattern(columns[idx + 1], col_pattern)
    IN  SelectSeq([i \in 1..Len(columns) |-> i - 1], Matches)

\* the "type" values apply_conditional_formats knows, of those used here
ConditionalFormatTypes == {"data_bar", "icon_set"}

\* the "type" values apply_validations knows, of those used here
ValidationTypes == {"list", "decimal"}

\* worksheet.add_conditional_format / add_data_validation on one column
Registration(col_idx, col_pattern, config) ==
    [col |-> col_idx, pattern |-> col_pattern, type |-> config.type]

\* the loop of apply_conditional_formats and of apply_validations over the
\* entries of the map: every matching column of every entry is registered;
\* an unknown "type" returns Err, the calls made so far staying made
RECURSIVE ApplyEntries(_, _, _, _)
ApplyEntries(worksheet, columns, entries, types) ==
    IF entries = <<>> THEN [ok |-> TRUE, worksheet |-> worksheet]
    ELSE LET col_pattern == Head(entries)[1]
             config      == Head(entries)[2]
             col_indices == ColIndices(columns, col_pattern)
         IN  IF col_indices = <<>>
             THEN ApplyEntries(worksheet, columns, Tail(entries), types)
             ELSE IF "type" \notin DOMAIN config \/ config.type \notin types
             THEN [ok |-> FALSE, worksheet |-> worksheet]
             ELSE ApplyEntries(
                    worksheet \o [i \in 1..Len(col_indices) |->
                                    Registration(col_indices[i], col_pattern, config)],
                    columns, Tail(entries), types)

\* features.rs apply_conditional_formats
apply_conditional_formats(worksheet, columns, cond_formats) ==
    ApplyEntries(worksheet, columns, cond_formats, ConditionalFormatTypes)

\* features.rs apply_validations
apply_validations(worksheet, columns, validations) ==
    ApplyEntries(worksheet, columns, validations, ValidationTypes)

(***************************************************************************)
(* Per-sheet options (lib.rs SheetConfig, extract_sheet_info and the merge *)
(* at the head of the dfs_to_xlsx loop).  A host value is [py |-> "absent"] *)
(* (the key is not in the options dict), [py |-> "None"], or                *)
(* [py |-> "value", v |-> ..]; dicts and lists are the sequences of their   *)
(* entries.                                                                 *)
(***************************************************************************)
BoolFields == {"header", "autofit", "freeze_panes"}

\* fields whose extraction keeps Some only for a collection with entries
NonEmptyFields ==
    {"column_widths", "header_format", "column_formats", "conditional_formats",
     "formula_columns", "merged_ranges", "hyperlinks"}

\* the fields of SheetConfig
SheetFields ==
    BoolFields \cup NonEmptyFields \cup {"table_style", "row_heights", "table_name"}

Absent == [py |-> "absent"]

PyNoneValue == [py |-> "None"]

PyValue(v) == [py |-> "value", v |-> v]

\* a key of a column_widths dict: an int (a column index) or a str ("_all")
IntKey(i) == [int |-> TRUE, i |-> i, s |-> <<>>]

StrKey(s) == [int |-> FALSE, i |-> 0, s |-> s]

\* extract_column_widths: int keys become their decimal text
extract_column_widths(py_dict) ==
    [n \in 1..Len(py_dict) |->
        <<IF py_dict[n][1].int THEN MagText(NatToMag(py_dict[n][1].i))
          ELSE py_dict[n][1].s,
          py_dict[n][2]>>]

\* extract_sheet_info, one field of the options dict
ExtractField(field, val) ==
    IF field = "table_style"
    THEN IF val.py = "absent" THEN None
         ELSE IF val.py = "None" THEN Some(None)
         ELSE Some(Some(val.v))
    ELSE IF val.py \in {"absent", "None"} THEN None
    ELSE IF field = "column_widths"
    THEN IF extract_column_widths(val.v) = <<>> THEN None
         ELSE Some(extract_column_widths(val.v))
    ELSE IF field \in NonEmptyFields
    THEN IF val.v = <<>> THEN None ELSE Some(val.v)
    ELSE Some(val.v)

\* extract_sheet_info: SheetConfig::default() for a 2-tuple, the extracted
\* fields for a 3-tuple
extract_sheet_info(sheet_tuple) ==
    IF ~sheet_tuple.has_options THEN [f \in SheetFields |-> None]
    ELSE [f \in SheetFields |-> ExtractField(f, sheet_tuple.opts[f])]

\* the global arguments of dfs_to_xlsx as the loop sees them: the bools as
\* they are, the others None or Some(extracted)
ExtractGlobal(field, val) ==
    IF field \in BoolFields THEN val.v
    ELSE IF val.py = "None" THEN None
    ELSE IF field = "column_widths" THEN Some(extract_column_widths(val.v))
    ELSE Some(val.v)

\* dfs_to_xlsx: "Merge per-sheet options with global defaults"
EffectiveOptions(sheet_config, globals) ==
    [f \in SheetFields |->
        IF f \in BoolFields
        THEN IF sheet_config[f].some THEN sheet_config[f].v
             ELSE ExtractGlobal(f, globals[f])
        ELSE IF f = "table_style"
        THEN IF sheet_config[f].some THEN sheet_config[f].v
             ELSE ExtractGlobal(f, globals[f])
        ELSE IF sheet_config[f].some THEN sheet_config[f]
             ELSE ExtractGlobal(f, globals[f])]

(***************************************************************************)
(* The conversion pipeline (convert.rs convert_csv_to_xlsx,                *)
(* convert_csv_to_xlsx_parallel, convert_dataframe_to_xlsx; lib.rs         *)
(* dfs_to_xlsx).  A conversion walks its steps in program order; each step *)
(* issues the worksheet calls its condition allows.  A call is             *)
(* [step, op, row]: the block that issued it, the worksheet method, and    *)
(* the row it targets (NoRow, no row index, for a call that targets none).  *)
(***************************************************************************)
EntryPoints ==
    {"convert_csv_to_xlsx", "convert_csv_to_xlsx_parallel",
     "convert_dataframe_to_xlsx", "dfs_to_xlsx"}

\* the blocks of convert_dataframe_to_xlsx, in program order
StepOrder ==
    <<"start", "header", "rows", "table", "formula_columns",
      "conditional_formats", "freeze_panes", "column_widths", "row_heights",
      "merged_ranges", "hyperlinks", "comments", "validations", "rich_text",
      "images", "save">>

Rank(step) == CHOOSE n \in 1..Len(StepOrder) : StepOrder[n] = step

\* a program order with the validations ahead of the comments
NextBlock_validations_first(step) ==
    CASE step = "hyperlinks"  -> "validations"
      [] step = "validations" -> "comments"
      [] step = "comments"    -> "rich_text"
      [] OTHER                -> StepOrder[Rank(step) + 1]

\* the block control reaches after a block of convert_dataframe_to_xlsx
NextBlock(step) == StepOrder[Rank(step) + 1]

\* the position after a step, for each entry point: the CSV converters go
\* from the rows to the save; the loop of dfs_to_xlsx ends at the
\* hyperlinks and starts the next sheet, or leaves the loop for the save
StepAfter(entry_point, step, last_sheet) ==
    IF entry_point = "convert_dataframe_to_xlsx" THEN NextBlock(step)
    ELSE IF entry_point = "dfs_to_xlsx"
    THEN IF step # "hyperlinks" THEN NextBlock(step)
         ELSE IF last_sheet THEN "save" ELSE "start"
    ELSE IF step = "start"
    THEN IF entry_point = "convert_csv_to_xlsx_parallel" THEN "classify" ELSE "rows"
    ELSE IF step = "classify" THEN "rows"
    ELSE "save"

NoRow == -1

Call(step, op, row) == [step |-> step, op |-> op, row |-> row]

\* row_idx.saturating_sub(1)
SaturatingSub1(n) == IF n = 0 THEN 0 ELSE n - 1

\* let data_row_start = if include_header { 1 } else { 0 }
DataRowStart(config) == IF config.include_header THEN 1 ELSE 0

\* apply_column_widths: a column gets its own width, else the "_all" width
ColumnWidthCalls(step, col_count, widths) ==
    LET Key(col_idx) == MagText(NatToMag(col_idx))
        Has(key)     == \E n \in 1..Len(widths) : widths[n][1] = key
        cols == SelectSeq([i \in 1..col_count |-> i - 1],
                          LAMBDA col_idx : Has(Key(col_idx)) \/ Has(<<"_", "a", "l", "l">>))
    IN  [i \in 1..Len(cols) |-> Call(step, "set_column_width", NoRow)]

\* the worksheet calls one block issues, and whether the block returned Ok
StepCalls(step, config, row_idx) ==
    LET data_row_end == SaturatingSub1(row_idx)
        has(feature) == feature \in config.features
        cm           == config.constant_memory
        none         == [ok |-> TRUE, calls |-> <<>>]
        one(op)      == [ok |-> TRUE, calls |-> <<Call(step, op, NoRow)>>]
        registered(r, op) ==
            [ok |-> r.ok,
             calls |-> [i \in 1..Len(r.worksheet) |-> Call(step, op, NoRow)]]
    IN  CASE step = "header" ->
               \* without a table, or as the header row of the table: row 0
               IF config.include_header
               THEN [ok |-> TRUE, calls |-> <<Call(step, "write_string", 0)>>]
               ELSE none
          [] step = "table" ->
               IF config.table_style /\ ~cm /\ config.row_count > 0
                  /\ data_row_end >= 0
               THEN one("add_table") ELSE none
          [] step = "formula_columns" ->
               IF has("formula_columns") /\ config.row_count > 0
                  /\ data_row_end >= DataRowStart(config)
               THEN [ok |-> TRUE,
                     calls |-> <<Call(step, "write_string", 0)>> \o
                               [i \in 1..(data_row_end - DataRowStart(config) + 1) |->
                                   Call(step, "write_formula", DataRowStart(config) + i - 1)]]
               ELSE none
          [] step = "conditional_formats" ->
               IF has("conditional_formats") /\ ~cm /\ config.row_count > 0
                  /\ data_row_end >= DataRowStart(config)
               THEN registered(apply_conditional_formats(<<>>, config.columns,
                                                         config.conditional_formats),
                               "add_conditional_format")
               ELSE none
          [] step = "freeze_panes" ->
               IF config.freeze_panes /\ config.include_header /\ ~cm
               THEN one("set_freeze_panes") ELSE none
          [] step = "column_widths" ->
               IF has("column_widths")
               THEN IF config.autofit /\ ~cm
                       /\ \E n \in 1..Len(config.column_widths) :
                              config.column_widths[n][1] = <<"_", "a", "l", "l">>
                    THEN [ok |-> TRUE,
                          calls |-> <<Call(step, "autofit", NoRow)>> \o
                                    ColumnWidthCalls(step, Len(config.columns),
                                                     config.column_widths)]
                    ELSE [ok |-> TRUE,
                          calls |-> ColumnWidthCalls(step, Len(config.columns),
                                                     config.column_widths)]
               ELSE IF config.autofit /\ ~cm THEN one("autofit") ELSE none
          [] step = "row_heights" ->
               IF has("row_heights") /\ ~cm
               THEN [ok |-> TRUE, calls |-> <<Call(step, "set_row_height", 0)>>]
               ELSE none
          [] step = "merged_ranges" ->
               IF has("merged_ranges") /\ ~cm THEN one("merge_range") ELSE none
          [] step = "hyperlinks" ->
               IF has("hyperlinks") /\ ~cm THEN one("write_url") ELSE none
          [] step = "comments" ->
               IF has("comments") /\ ~cm THEN one("insert_note") ELSE none
          [] step = "validations" ->
               IF has("validations") /\ ~cm /\ config.row_count > 0
                  /\ data_row_end >= DataRowStart(config)
               THEN registered(apply_validations(<<>>, config.columns,
                                                 config.validations),
                               "add_data_validation")
               ELSE none
          [] step = "rich_text" ->
               IF has("rich_text") /\ ~cm THEN one("write_rich_string") ELSE none
          [] step = "images" ->
               IF has("images") /\ ~cm THEN one("insert_image") ELSE none

\* a block holds a call that returns a Result: every worksheet call but
\* autofit does
Fallible(calls) == \E n \in 1..Len(calls) : calls[n].op # "autofit"

(***************************************************************************)
(* convert_csv_to_xlsx_parallel: the cells in the order the two nested     *)
(* loops over parsed_rows visit them, as <<row_idx, col_idx>>              *)
(***************************************************************************)
RECURSIVE RowsFrom(_, _)
RowsFrom(rows, row) ==
    IF row > Len(rows) THEN <<>>
    ELSE [c \in 1..Len(rows[row]) |-> <<row - 1, c - 1>>] \o RowsFrom(rows, row + 1)

\* the loops visited last record first
WriteOrder_last_record_first(rows) ==
    LET RECURSIVE Down(_)
        Down(row) ==
            IF row = 0 THEN <<>>
            ELSE [c \in 1..Len(rows[row]) |-> <<row - 1, c - 1>>] \o Down(row - 1)
    IN  Down(Len(rows))

WriteOrder(rows) == RowsFrom(rows, 1)

\* the length of the first record in place of the longest
MaxCols_first_record(rows) == IF rows = <<>> THEN 0 ELSE Len(rows[1])

\* records.iter().map(|r| r.len()).max().unwrap_or(0)
MaxCols(rows) ==
    IF rows = <<>> THEN 0
    ELSE CHOOSE n \in {Len(rows[r]) : r \in 1..Len(rows)} :
             \A r \in 1..Len(rows) : Len(rows[r]) <= n

\* every task of the par_iter has returned its row
AllClassified(rows, parsed_rows) ==
    \A r \in 1..Len(rows) : Len(parsed_rows[r]) = Len(rows[r])

(***************************************************************************)
(* Cell references (parse.rs parse_cell_ref, parse_cell_range) and the     *)
(* length test of a list validation (features.rs apply_validations).  A    *)
(* row is a magnitude; the outcome of a call is what a build can produce:  *)
(* an arithmetic overflow panics where overflow checks are compiled in and *)
(* wraps where they are not.                                               *)
(***************************************************************************)
U32_MAX_MAG == MagDec(MagShl(<<1>>, 32))

\* str::parse::<u32>: an optional '+', then one or more decimal digits
ParseU32(src) ==
    LET digits == IF src # <<>> /\ Head(src) = "+" THEN Tail(src) ELSE src
    IN  IF digits = <<>> \/ ~AllDigits(digits) THEN [ok |-> FALSE]
        ELSE IF MagLess(U32_MAX_MAG, DigitsOf(digits)) THEN [ok |-> FALSE]
        ELSE [ok |-> TRUE, v |-> DigitsOf(digits)]

CellOk(row, col) == [ok |-> TRUE, panic |-> FALSE, row |-> row, col |-> col]

CellErr == [ok |-> FALSE, panic |-> FALSE, row |-> <<0>>, col |-> 0]

CellPanic == [ok |-> FALSE, panic |-> TRUE, row |-> <<0>>, col |-> 0]

\* chars().take_while(|c| c.is_ascii_alphabetic()).count()
RECURSIVE LeadingLetters(_)
LeadingLetters(s) ==
    IF s # <<>> /\ IsAsciiAlphabetic(Head(s)) THEN 1 + LeadingLetters(Tail(s)) ELSE 0

\* fold(0u16, |acc, c| acc * 26 + (c as u16 - 'A' as u16 + 1)): the value
\* modulo 2^16, and whether a step overflowed
RECURSIVE ColumnFold(_, _, _)
ColumnFold(col_str, acc, overflowed) ==
    IF col_str = <<>> THEN [acc |-> acc, overflowed |-> overflowed]
    ELSE LET v == acc * 26 + IndexIn(UpperLetters, Head(col_str))
         IN  ColumnFold(Tail(col_str), v % 65536, overflowed \/ v > 65535)

\* parse.rs parse_cell_ref: the outcomes a build can produce
parse_cell_ref(cell_ref) ==
    LET upper   == to_uppercase(Trim(cell_ref))
        col_end == LeadingLetters(upper)
        col_str == SubSeq(upper, 1, col_end)
        row_str == SubSeq(upper, col_end + 1, Len(upper))
        folded  == ColumnFold(col_str, 0, FALSE)
        row     == ParseU32(row_str)
        wrapped == IF ~row.ok \/ row.v = <<0>> THEN CellErr
                   ELSE CellOk(MagDec(row.v), SaturatingSub1(folded.acc))
    IN  IF upper = <<>> \/ col_end = 0 \/ row_str = <<>> THEN {CellErr}
        ELSE IF folded.overflowed THEN {CellPanic, wrapped}
        ELSE {wrapped}

\* str::split(':')
RECURSIVE SplitColon(_, _)
SplitColon(s, part) ==
    IF s = <<>> THEN <<part>>
    ELSE IF Head(s) = ":" THEN <<part>> \o SplitColon(Tail(s), <<>>)
    ELSE SplitColon(Tail(s), Append(part, Head(s)))

RangeOk(first, last) ==
    [ok |-> TRUE, panic |-> FALSE, first |-> first, last |-> last]

RangeErr == [ok |-> FALSE, panic |-> FALSE, first |-> CellErr, last |-> CellErr]

RangePanic == [ok |-> FALSE, panic |-> TRUE, first |-> CellErr, last |-> CellErr]

\* parse.rs parse_cell_range
parse_cell_range(range_str) ==
    LET parts == SplitColon(range_str, <<>>)
        Ends(first) ==
            IF first.panic THEN {RangePanic}
            ELSE IF ~first.ok THEN {RangeErr}
            ELSE {IF last.panic THEN RangePanic
                  ELSE IF ~last.ok THEN RangeErr
                  ELSE RangeOk(first, last) : last \in parse_cell_ref(parts[2])}
    IN  IF Len(parts) # 2 THEN {RangeErr}
        ELSE UNION {Ends(first) : first \in parse_cell_ref(parts[1])}

\* values.iter().map(|s| s.len()).sum() + values.len().saturating_sub(1)
RECURSIVE SumStrLen(_)
SumStrLen(values) ==
    IF values = <<>> THEN 0 ELSE StrLen(Head(values)) + SumStrLen(Tail(values))

total_chars(values) == SumStrLen(values) + SaturatingSub1(Len(values))

\* apply_validations, the "list" arm on a matched column: Err naming the
\* 255 limit, or the validation built from the values
list_validation(values) ==
    IF total_chars(values) > 255
    THEN [ok |-> FALSE, names_limit |-> TRUE]
    ELSE [ok |-> TRUE, names_limit |-> FALSE]

(***************************************************************************)
(* The worksheet of one frame (convert.rs convert_dataframe_to_xlsx and    *)
(* the loop body of lib.rs dfs_to_xlsx).  A worksheet is a record of its   *)
(* cells (a function of <<row, col>>, the last write of a cell staying),   *)
(* the widths set by set_column_width, the columns fitted by autofit and   *)
(* the tables added.                                                       *)
(***************************************************************************)
NewWorksheet ==
    [cells |-> <<>>, widths |-> <<>>, autofit_calls |-> 0, fitted |-> {},
     tables |-> <<>>]

\* Worksheet::write_string, write_formula, write_py_value_with_format
Put(cells, row, col, content) ==
    [at \in DOMAIN cells \cup {<<row, col>>} |->
        IF at = <<row, col>> THEN content ELSE cells[at]]

RECURSIVE PutAll(_, _)
PutAll(cells, writes) ==
    IF writes = <<>> THEN cells
    ELSE PutAll(Put(cells, writes[1].row, writes[1].col, writes[1].content),
                Tail(writes))

Write(row, col, content) == [row |-> row, col |-> col, content |-> content]

HeaderCell(name) == [kind |-> "header", text |-> name]

DataCell(row, col) == [kind |-> "data", text |-> <<row, col>>]

FormulaCell(text) == [kind |-> "formula", text |-> text]

\* the header loop: one write_string for each column, in row 0
HeaderWrites(columns) ==
    [c \in 1..Len(columns) |-> Write(0, c - 1, HeaderCell(columns[c]))]

\* the loops over the rows and the columns of the frame, from row_idx on
DataWrites(row_idx, row_count, col_count) ==
    [n \in 1..(row_count * col_count) |->
        Write(row_idx + (n - 1) \div col_count, (n - 1) % col_count,
              DataCell((n - 1) \div col_count, (n - 1) % col_count))]

\* u32::to_string
U32ToString(n) == MagText(NatToMag(n))

\* str::replace: the occurrences of from that do not overlap, left to right
RECURSIVE StrReplace(_, _, _)
StrReplace(s, from, to) ==
    IF Len(s) < Len(from) THEN s
    ELSE IF SubSeq(s, 1, Len(from)) = from
    THEN to \o StrReplace(SubSeq(s, Len(from) + 1, Len(s)), from, to)
    ELSE <<Head(s)>> \o StrReplace(Tail(s), from, to)

RowPlaceholder == <<"{", "r", "o", "w", "}">>

\* the formula of one row, numbered from 0 instead of from 1
FormulaText_zero_based(formula_template, row) ==
    StrReplace(formula_template, RowPlaceholder, U32ToString(row))

\* let excel_row = row + 1; formula_template.replace("{row}", ...)
FormulaText(formula_template, row) ==
    StrReplace(formula_template, RowPlaceholder, U32ToString(row + 1))

\* the writes of apply_formula_columns, with Ok(0) returned
apply_formula_columns_count_lost(formula_columns, start_col, data_start_row, data_end_row) ==
    LET rows == data_end_row - data_start_row + 1
        Column(k) ==
            <<Write(0, start_col + k - 1, HeaderCell(formula_columns[k][1]))>> \o
            [i \in 1..rows |->
                Write(data_start_row + i - 1, start_col + k - 1,
                      FormulaCell(FormulaText(formula_columns[k][2],
                                              data_start_row + i - 1)))]
        RECURSIVE From(_)
        From(k) == IF k > Len(formula_columns) THEN <<>> ELSE Column(k) \o From(k + 1)
    IN  [writes |-> From(1), col_offset |-> 0]

\* features.rs apply_formula_columns: the writes, column after column, the
\* header of a column and then its rows; and the col_offset returned
apply_formula_columns(formula_columns, start_col, data_start_row, data_end_row) ==
    LET rows == data_end_row - data_start_row + 1
        Column(k) ==
            <<Write(0, start_col + k - 1, HeaderCell(formula_columns[k][1]))>> \o
            [i \in 1..rows |->
                Write(data_start_row + i - 1, start_col + k - 1,
                      FormulaCell(FormulaText(formula_columns[k][2],
                                              data_start_row + i - 1)))]
        RECURSIVE From(_)
        From(k) == IF k > Len(formula_columns) THEN <<>> ELSE Column(k) \o From(k + 1)
    IN  [writes |-> From(1), col_offset |-> Len(formula_columns)]

AllKey == <<"_", "a", "l", "l">>

HasKey(widths, key) == \E n \in 1..Len(widths) : widths[n][1] = key

\* HashMap::get of a key the map holds
GetKey(widths, key) == widths[CHOOSE n \in 1..Len(widths) : widths[n][1] = key][2]

\* the width of one column with "_all" ahead of the column's own entry
WidthOf_all_first(widths, col_idx) ==
    IF HasKey(widths, AllKey) THEN Some(GetKey(widths, AllKey))
    ELSE IF HasKey(widths, U32ToString(col_idx))
    THEN Some(GetKey(widths, U32ToString(col_idx)))
    ELSE None

\* the body of the loop of apply_column_widths and of
\* apply_column_widths_with_autofit_cap: the column's own entry, else "_all"
WidthOf(widths, col_idx) ==
    IF HasKey(widths, U32ToString(col_idx))
    THEN Some(GetKey(widths, U32ToString(col_idx)))
    ELSE IF HasKey(widths, AllKey) THEN Some(GetKey(widths, AllKey))
    ELSE None

\* features.rs apply_column_widths: set_column_width for 0..col_count
apply_column_widths(worksheet, col_count, widths) ==
    [worksheet EXCEPT !.widths =
        [c \in DOMAIN worksheet.widths
               \cup {d \in 0..(col_count - 1) : WidthOf(widths, d).some} |->
            IF c < col_count /\ WidthOf(widths, c).some
            THEN WidthOf(widths, c).v ELSE worksheet.widths[c]]]

\* Worksheet::autofit: the columns that hold a cell are fitted
Autofit(worksheet) ==
    [worksheet EXCEPT !.autofit_calls = @ + 1,
                      !.fitted = {at[2] : at \in DOMAIN worksheet.cells}]

\* features.rs apply_column_widths_with_autofit_cap
apply_column_widths_with_autofit_cap(worksheet, col_count, widths, constant_memory) ==
    apply_column_widths(IF ~constant_memory THEN Autofit(worksheet) ELSE worksheet,
                        col_count, widths)

\* the column-width block of convert_dataframe_to_xlsx and of dfs_to_xlsx
ColumnWidthBlock(worksheet, col_count, column_widths, autofit, constant_memory) ==
    IF column_widths.some
    THEN IF autofit /\ HasKey(column_widths.v, AllKey) /\ ~constant_memory
         THEN apply_column_widths_with_autofit_cap(worksheet, col_count,
                                                   column_widths.v, constant_memory)
         ELSE apply_column_widths(worksheet, col_count, column_widths.v)
    ELSE IF autofit /\ ~constant_memory THEN Autofit(worksheet)
    ELSE worksheet

\* the width a column ends with: the one set last, else the fitted one
FinalWidth(worksheet, col) ==
    IF col \in DOMAIN worksheet.widths THEN [how |-> "set", width |-> worksheet.widths[col]]
    ELSE IF col \in worksheet.fitted THEN [how |-> "fitted", width |-> 0]
    ELSE [how |-> "default", width |-> 0]

(***************************************************************************)
(* Inputs                                                                  *)
(***************************************************************************)
\* the longest run of whitespace put before and after a field
MaxPad == 1

Pads == {[i \in 1..k |-> " "] : k \in 0..MaxPad} \cup {<<"\t">>}

\* magnitudes at and around 2^53 and 2^63
IntMagnitudes ==
    {<<0>>, <<7>>, <<1, 2, 3>>,
     MagDec(MAX_SAFE_INT), MAX_SAFE_INT, MagInc(MAX_SAFE_INT),
     MagInc(MagInc(MagInc(MAX_SAFE_INT))),
     I64_MAX_MAG, I64_MIN_MAG, MagInc(I64_MIN_MAG),
     <<1>> \o Zeros(19)}

\* the decimal text of the integer (neg, mag)
DecimalText(neg, mag) ==
    (IF neg /\ mag # <<0>> THEN <<"-">> ELSE <<>>) \o MagText(mag)

IntTexts ==
    {DecimalText(neg, m) : neg \in BOOLEAN, m \in IntMagnitudes}
      \cup {<<"+">> \o MagText(m) : m \in IntMagnitudes}
      \cup {<<"0", "0", "7">>, <<"-", "0">>, <<"-", "0", "1", "2">>}

FloatTexts ==
    {<<"3", ".", "1", "4">>, <<"-", "0", ".", "5">>, <<".", "5">>,
     <<"5", ".">>, <<"1", "e", "5">>, <<"1", "E", "-", "3">>,
     <<"1", ".", "5", "e", "+", "2">>, <<"0", ".", "0">>, <<"1", "e", "3", "0", "8">>,
     <<"1", ".", "7", "9", "7", "6", "9", "3", "1", "3", "4", "8", "6", "2", "3", "1", "5", "8", "e", "3", "0", "8">>, <<"1", ".", "7", "9", "7", "6", "9", "3", "1", "3", "4", "8", "6", "2", "3", "1", "5", "9", "e", "3", "0", "8">>, <<"1", "e", "3", "0", "9">>,
     <<"-", "1", "e", "9", "9", "9">>, <<"1", "e", "-", "9", "9", "9">>, <<"9", "0", "0", "7", "1", "9", "9", "2", "5", "4", "7", "4", "0", "9", "9", "3", ".", "0">>}

\* texts that parse as a NaN or an infinity
NanInfTexts ==
    {<<"N", "a", "N">>, <<"n", "a", "n">>, <<"N", "A", "N">>, <<"-", "n", "a", "n">>,
     <<"+", "N", "a", "N">>, <<"i", "n", "f">>, <<"-", "i", "n", "f">>, <<"+", "i", "n", "f">>,
     <<"I", "n", "f">>, <<"I", "N", "F">>, <<"i", "n", "f", "i", "n", "i", "t", "y">>, <<"-", "I", "n", "f", "i", "n", "i", "t", "y">>,
     <<"1", "e", "3", "0", "9">>, <<"-", "1", "e", "9", "9", "9">>, <<"1", ".", "7", "9", "7", "6", "9", "3", "1", "3", "4", "8", "6", "2", "3", "1", "5", "9", "e", "3", "0", "8">>}

NotNumberTexts ==
    {<<".">>, <<"e", "5">>, <<"1", "e">>, <<"1", "e", "+">>, <<"1", ".", "2", ".", "3">>,
     <<"-", "-", "1">>, <<"+", "-", "1">>, <<"1", " ", "2">>, <<"0", "x", "1", "0">>, <<"1", "_", "0", "0", "0">>,
     <<"i", "n", "f", "i", "n", "i", "t">>, <<"n", "a">>, <<"i", "n">>, <<"-">>, <<"+">>,
     <<"1", ",", "5">>}

BoolTexts ==
    {<<"t", "r", "u", "e">>, <<"T", "R", "U", "E">>, <<"T", "r", "u", "e">>,
     <<"t", "R", "u", "E">>, <<"f", "a", "l", "s", "e">>, <<"F", "A", "L", "S", "E">>,
     <<"F", "a", "l", "s", "e">>}

OtherTexts ==
    {<<"h", "e", "l", "l", "o">>, <<"t", "r", "u", "e", "e">>, <<"y", "e", "s">>,
     <<"t">>, <<"f", "a", "l", "s">>, <<"0", "1", "-", "0", "2", "/", "2", "0", "2", "4">>,
     <<"2", "0", "2", "4", "-", "0", "1">>, <<"0", "1", "-", "0", "2", "-", "0", "3">>, <<"1", "-", "2", "-", "2", "0", "2", "4">>,
     <<"2", "0", "2", "4", "-", "1", "-", "5">>, <<"2", "0", "2", "4", "-", "0", "1", "-", "1", "5", "x">>, <<"a", " ", "b">>,
     <<"-", "0", "0", "0", "1", "-", "0", "1", "-", "0", "1">>, <<"+", "2", "0", "2", "4", "-", "0", "1", "-", "1", "5">>, <<"2", "0", "2", "4", "-", " ", "0", "1", "-", "1", "5">>,
     <<"2", "0", "2", "4", "-", "0", "2", "-", "2", "9">>, <<"2", "0", "2", "3", "-", "0", "2", "-", "2", "9">>, <<"2", "9", "-", "0", "2", "-", "2", "0", "2", "4">>,
     <<"0", "2", "/", "2", "9", "/", "2", "0", "2", "4">>, <<"1", "8", "9", "9", "-", "1", "2", "-", "3", "0">>, <<"1", "8", "9", "9", "-", "1", "2", "-", "3", "1">>}

\* two-character day and month fields, in and out of range
DayMonthFields ==
    {<<"0", "1">>, <<"0", "2">>, <<"1", "2">>, <<"1", "3">>, <<"3", "0">>}

YearFields == {<<"2", "0", "2", "4">>, <<"1", "9", "0", "0">>}

DateSeparators == {"-", "/"}

\* YYYY-MM-DD and YYYY/MM/DD
IsoDateTexts ==
    {y \o <<sep>> \o a \o <<sep>> \o b :
       y \in YearFields, a \in DayMonthFields, b \in DayMonthFields,
       sep \in DateSeparators}

\* AA-BB-YYYY and AA/BB/YYYY
DayMonthYearTexts ==
    {a \o <<sep>> \o b \o <<sep>> \o y :
       y \in YearFields, a \in DayMonthFields, b \in DayMonthFields,
       sep \in DateSeparators}

TimeTexts ==
    {<<"1", "0", ":", "3", "0", ":", "0", "0">>, <<"2", "3", ":", "5", "9", ":", "5", "9">>,
     <<"2", "3", ":", "5", "9", ":", "6", "0">>, <<"2", "4", ":", "0", "0", ":", "0", "0">>,
     <<"1", ":", "2", ":", "3">>}

FractionTexts ==
    {<<>>, <<".", "5">>, <<".">>}

DateTimeDates ==
    {<<"2", "0", "2", "4", "-", "0", "1", "-", "1", "5">>, <<"2", "0", "2", "3", "-", "0", "2", "-", "2", "9">>}

DateTimeTexts ==
    {d \o sep \o t \o f :
       d \in DateTimeDates, sep \in {<<"T">>, <<" ">>, <<>>},
       t \in TimeTexts, f \in FractionTexts}
      \cup {<<"1", "8", "9", "9", "-", "1", "2", "-", "3", "0", "t", "0", "0",
              ":", "0", "0", ":", "0", "0">>,
            <<"1", "8", "9", "9", "-", "1", "2", "-", "3", "0", "T", "0", "0",
              ":", "0", "0", ":", "0", "1", ".", "1", "2", "3", "4", "5", "6",
              "7", "8", "9", "0", "1", "2">>}

CoreTexts ==
    {<<>>} \cup IntTexts \cup FloatTexts \cup NanInfTexts \cup NotNumberTexts
      \cup BoolTexts \cup OtherTexts \cup IsoDateTexts \cup DayMonthYearTexts
      \cup DateTimeTexts

\* the fields of the CSV input: a core text between two runs of whitespace
RawTexts == {l \o t \o r : l \in Pads, t \in CoreTexts, r \in Pads}

\* the host values of the dynamic path
PyValues ==
    {PyNone, PyNA("NAType"), PyNA("NaTType"),
     PyBoolValue(TRUE), PyBoolValue(FALSE),
     PyFloatValue(F64NaN), PyFloatValue(F64Inf(TRUE)),
     PyFloatValue(F64Finite(FALSE, <<2, 5>>, -1)),
     NumpyFloatValue(F64NaN), NumpyFloatValue(F64Finite(TRUE, <<1, 5>>, -1)),
     PyStrValue(<<"a", "b">>), PyStrValue(<<"1", "2">>),
     PyObjectValue(<<"x">>),
     PyDateTimeValue("datetime", 2024, 1, 15, 10, 30, 0),
     PyDateTimeValue("Timestamp", 1899, 12, 30, 23, 59, 59),
     PyDateValue(2024, 2, 29), PyDateValue(1900, 1, 1)}
      \cup {PyIntValue(neg, m) : neg \in BOOLEAN, m \in IntMagnitudes}
      \cup {NumpyIntValue(neg, m) :
              neg \in BOOLEAN, m \in {x \in IntMagnitudes : MagLeq(x, I64_MAX_MAG)}}
      \cup {NumpyIntValue(TRUE, I64_MIN_MAG)}

ColumnFormats == {NoFormat, "column_format"}

\* the longest column name and the longest pattern given to matches_pattern
MaxNameLen == 3

ColumnNameChars == {"a", "b"}

PatternChars == {"a", "b", "*"}

\* every column name, the empty one included
Names == UNION {[1..k -> ColumnNameChars] : k \in 0..MaxNameLen}

\* every pattern, with '*' at any place
Patterns == UNION {[1..k -> PatternChars] : k \in 0..MaxNameLen}

\* the most columns of a table and the most entries of a pattern-keyed map
MaxColumns == 2

MaxEntries == 2

TableColumnNames == {<<"a", "b">>, <<"b", "a">>, <<"b">>}

ColumnLists == UNION {[1..k -> TableColumnNames] : k \in 0..MaxColumns}

\* overlapping patterns: "ab" is matched by all four
DeclaredPatterns == {<<"*">>, <<"a", "*">>, <<"*", "b", "*">>, <<"a", "b">>}

\* the insertion-ordered maps from a pattern to one of the configs: the keys
\* of a map are distinct
PatternMaps(configs) ==
    {m \in UNION {[1..k -> DeclaredPatterns \X configs] : k \in 0..MaxEntries} :
       \A i, j \in 1..Len(m) : m[i][1] = m[j][1] => i = j}

\* format dicts: two that parse and one whose colour is unknown
FormatDicts ==
    {[bg_color |-> <<"r", "e", "d">>], [bg_color |-> <<"b", "l", "u", "e">>],
     [bg_color |-> <<"n", "o", "c", "o", "l", "o", "r">>]}

\* conditional-format configs: two known types and an unknown one
ConditionalFormatConfigs ==
    {[type |-> "data_bar"], [type |-> "icon_set"], [type |-> "sparkle"]}

\* validation configs: two known types and an unknown one
ValidationConfigs == {[type |-> "list"], [type |-> "decimal"], [type |-> "sparkle"]}

\* the most keys of a sheet's options dict
MaxOverrides == 2

OptionChoices == {"none", "a", "b"}

\* what an options dict holds for a field: None, or one of two values; for a
\* collection the first is empty and the second shares no key with the global
SheetValue(field, choice) ==
    IF choice = "none" THEN PyNoneValue
    ELSE IF field \in BoolFields THEN PyValue(choice = "b")
    ELSE IF field = "table_style"
    THEN PyValue(IF choice = "a" THEN "Light1" ELSE "Dark2")
    ELSE IF field = "table_name"
    THEN PyValue(IF choice = "a" THEN "T1" ELSE "T2")
    ELSE IF choice = "a" THEN PyValue(<<>>)
    ELSE IF field = "column_widths"
    THEN PyValue(<< <<IntKey(1), 30>>, <<StrKey(<<"_", "a", "l", "l">>), 50>> >>)
    ELSE IF field = "row_heights" THEN PyValue(<< <<2, 40>> >>)
    ELSE PyValue(<< <<"sheet_key", field>> >>)

\* the options dicts with at most MaxOverrides keys
SheetOptions ==
    UNION {{[f \in SheetFields |-> IF f \in K THEN SheetValue(f, g[f]) ELSE Absent] :
              g \in [K -> OptionChoices]} :
             K \in {K \in SUBSET SheetFields : Cardinality(K) <= MaxOverrides}}

NoOptions == [f \in SheetFields |-> Absent]

\* the sheet tuples: (df, name) and (df, name, options)
SheetTuple(name, has_options, opts) ==
    [name |-> name, has_options |-> has_options, opts |-> opts]

\* the global arguments: the defaults of the signature, or every one given
GlobalDefaults ==
    [f \in SheetFields |->
        IF f = "header" THEN PyValue(TRUE)
        ELSE IF f \in BoolFields THEN PyValue(FALSE)
        ELSE PyNoneValue]

GlobalGiven ==
    [f \in SheetFields |->
        IF f = "header" THEN PyValue(FALSE)
        ELSE IF f \in BoolFields THEN PyValue(TRUE)
        ELSE IF f = "table_style" THEN PyValue("Medium9")
        ELSE IF f = "table_name" THEN PyValue("Global")
        ELSE IF f = "column_widths" THEN PyValue(<< <<IntKey(0), 20>> >>)
        ELSE IF f = "row_heights" THEN PyValue(<< <<0, 25>> >>)
        ELSE PyValue(<< <<"global_key", f>> >>)]

\* the most data rows of a frame and records of a CSV file
MaxRows == 2

\* the optional features of convert_dataframe_to_xlsx
FeatureNames ==
    {"formula_columns", "conditional_formats", "column_widths", "row_heights",
     "merged_ranges", "hyperlinks", "comments", "validations", "rich_text",
     "images"}

\* the features dfs_to_xlsx takes
DfsFeatureNames ==
    {"formula_columns", "conditional_formats", "column_widths", "row_heights",
     "merged_ranges", "hyperlinks"}

\* no feature, one feature, or every feature
FeatureSets == {{}} \cup {{f} : f \in FeatureNames} \cup {FeatureNames}

\* the entry of a conditional_formats / validations map: a known type, an
\* unknown type, no "type" key, an unknown type under a pattern that
\* matches no column
EntryKinds == {"known", "unknown", "missing", "unmatched"}

FrameColumns == << <<"a", "b">>, <<"b">> >>

EntryOf(kind, known_type) ==
    CASE kind = "known"     -> << <<"*">>, [type |-> known_type] >>
      [] kind = "unknown"   -> << <<"*">>, [type |-> "sparkle"] >>
      [] kind = "missing"   -> << <<"*">>, [min |-> 0] >>
      [] kind = "unmatched" -> << <<"a">>, [type |-> "sparkle"] >>

\* the arguments of a conversion
Config(include_header, autofit, table_style, freeze_panes, constant_memory,
       features, kind, row_count, sheet_count) ==
    [include_header |-> include_header, autofit |-> autofit,
     table_style |-> table_style, freeze_panes |-> freeze_panes,
     constant_memory |-> constant_memory, features |-> features,
     columns |-> FrameColumns,
     column_widths |-> IF features = FeatureNames
                       THEN << <<(<<"_", "a", "l", "l">>), 50>>, <<(<<"0">>), 20>> >>
                       ELSE << <<(<<"0">>), 20>> >>,
     conditional_formats |-> <<EntryOf(kind, "data_bar")>>,
     validations |-> <<EntryOf(kind, "list")>>,
     row_count |-> row_count, sheet_count |-> sheet_count]

NoConfig == Config(FALSE, FALSE, FALSE, FALSE, FALSE, {}, "known", 0, 0)

\* a CSV conversion has no options
CsvConfigs ==
    {Config(FALSE, FALSE, FALSE, FALSE, FALSE, {}, "known", n, 1) : n \in 0..MaxRows}

DataFrameConfigs ==
    {Config(c.h, c.a, c.t, c.f, c.m, c.features, c.kind, c.n, 1) :
        c \in {c \in [h : BOOLEAN, a : BOOLEAN, t : BOOLEAN, f : BOOLEAN,
                       m : BOOLEAN, features : FeatureSets, kind : EntryKinds,
                       n : 0..MaxRows] :
                  c.kind # "known" =>
                      c.features \cap {"conditional_formats", "validations"} # {}}}

\* two sheets under the global arguments
DfsConfigs ==
    {Config(c.h, FALSE, c.t, FALSE, c.m, c.features, c.kind, c.n, 2) :
        c \in [h : BOOLEAN, t : BOOLEAN, m : BOOLEAN,
               features : {{}, DfsFeatureNames}, kind : {"known", "unknown"},
               n : 0..MaxRows]}

ConfigsOf(entry_point) ==
    IF entry_point = "convert_dataframe_to_xlsx" THEN DataFrameConfigs
    ELSE IF entry_point = "dfs_to_xlsx" THEN DfsConfigs
    ELSE CsvConfigs

\* the fields of the records of a parallel conversion: a number, a text, a
\* date whose reading depends on the DateOrder
ParallelFields ==
    {<<"7">>, <<"x">>, <<"0", "1", "/", "0", "2", "/", "2", "0", "2", "4">>}

\* flexible(true): the records of a file need not have the same length
ParallelRecords ==
    {<<>>} \cup {<<f>> : f \in ParallelFields}
           \cup {<<f, g>> : f \in {<<"7">>}, g \in ParallelFields}

ParallelFiles == UNION {[1..n -> ParallelRecords] : n \in 0..MaxRows}

\* the files given to both CSV converters
CsvRecords ==
    {<<(<<"7">>)>>,
     <<(<<"x">>), (<<"0", "1", "/", "0", "2", "/", "2", "0", "2", "4">>)>>,
     <<(<<"1">>), (<<"2", "0", "2", "4", "-", "0", "1", "-", "1", "5">>),
       (<<"t", "r", "u", "e">>)>>,
     <<(<<>>), (<<>>), (<<>>)>>}

CsvFiles == UNION {[1..n -> CsvRecords] : n \in 0..2}

\* text between quotes, as the sequence of its characters
ColumnTexts ==
    {<<>>, <<"A">>, <<"Z">>, <<"a">>, <<"A", "A">>, <<"X", "F", "D">>,
     <<"Z", "Z", "Z">>, <<"C", "R", "X", "O">>, <<"C", "R", "X", "P">>,
     <<"Z", "Z", "Z", "Z">>, <<"ß">>}

RowTexts ==
    {<<>>, <<"1">>, <<"0">>, <<"1", "0">>, <<"0", "1">>, <<"+", "1">>,
     <<"-", "1">>, <<"1", "x">>, MagText(U32_MAX_MAG), MagText(MagInc(U32_MAX_MAG))}

CellRefTexts ==
    {pad \o col \o row : pad \in {<<>>, <<" ">>}, col \in ColumnTexts, row \in RowTexts}

RangeEnds ==
    {<<>>, <<"A", "1">>, <<"b", "2">>, <<"A", "+", "1">>, <<"1">>,
     <<"Z", "Z", "Z", "Z", "1">>}

CellRangeTexts ==
    {first \o <<":">> \o last : first \in RangeEnds, last \in RangeEnds}
        \cup {<<"A", "1">>, <<"A", "1", ":", "B", "2", ":", "C", "3">>}

ColorCores ==
    {NamedColors[n][1] : n \in 1..Len(NamedColors)} \cup
    {<<>>, <<"#">>, <<"R", "E", "D">>, <<"G", "r", "e", "y">>, <<"p", "i", "n", "k">>,
     <<"#", "F", "F", "0", "0", "0", "0">>, <<"#", "f", "f", "0", "0", "a", "a">>,
     <<"#", "0", "0", "0", "0", "0", "0">>, <<"#", "G", "G", "G", "G", "G", "G">>,
     <<"#", "1", "2", "3", "4", "5">>, <<"#", "1", "2", "3", "4", "5", "6", "7">>,
     <<"#", "+", "1", "2", "3", "4", "5">>, <<"#", "-", "1", "2", "3", "4", "5">>,
     <<"#", "1", "2", " ", "3", "4", "5">>, <<"#", "€", "€">>,
     <<"F", "F", "0", "0", "0", "0">>}

ColorTexts ==
    {left \o core \o right :
        left \in {<<>>, <<" ">>}, core \in ColorCores, right \in {<<>>, <<"\t">>}}

\* a value of n times one character
Repeated(c, n) == [i \in 1..n |-> c]

\* the values of list validations, short and at both sides of the limit,
\* of one-byte and of two-byte characters
ListValues ==
    {<<>>, << <<>> >>, << <<"a">>, <<"b">> >>}
    \cup {<<Repeated("a", n)>> : n \in 253..257}
    \cup {<<Repeated("a", n), Repeated("b", m)>> : n \in {100, 127}, m \in 126..155}
    \cup {<<Repeated("a", 84), Repeated("b", 84), Repeated("c", n)>> : n \in 84..87}
    \cup {<<Repeated("é", n)>> : n \in {127, 128, 255, 256}}
    \cup {<<Repeated("é", 100), Repeated("a", n)>> : n \in {54, 55, 154, 155}}

\* the frames of the worksheet model: up to two columns and two rows
FrameColumnLists == {<<>>, << <<"a">> >>, << <<"a">>, <<"b">> >>}

FrameRowCounts == 0..2

\* column_widths after extraction: the keys are "_all" and column indices
WidthMaps ==
    {None, Some(<<>>),
     Some(<< <<AllKey, 30>> >>),
     Some(<< <<(<<"0">>), 10>> >>),
     Some(<< <<(<<"1">>), 12>> >>),
     Some(<< <<(<<"5">>), 7>> >>),
     Some(<< <<(<<"0">>), 10>>, <<(<<"1">>), 12>> >>),
     Some(<< <<(<<"0">>), 10>>, <<AllKey, 30>> >>),
     Some(<< <<AllKey, 30>>, <<(<<"1">>), 12>> >>)}

\* formula_columns: name and template, in declaration order
FormulaMaps ==
    {None, Some(<<>>),
     Some(<< <<(<<"t">>), (<<"=", "A", "{", "r", "o", "w", "}", "*", "2">>)>> >>),
     Some(<< <<(<<"t">>), (<<"=", "{", "r", "o", "w", "}", "+", "{", "r", "o", "w", "}">>)>>,
             <<(<<"u">>), (<<"=", "{", "{", "r", "o", "w", "}", "r", "o", "w", "}">>)>> >>)}

Frames ==
    [entry : {"convert_dataframe_to_xlsx", "dfs_to_xlsx"},
     columns : FrameColumnLists,
     row_count : FrameRowCounts,
     include_header : BOOLEAN,
     table_style : BOOLEAN,
     constant_memory : BOOLEAN,
     autofit : BOOLEAN,
     column_widths : WidthMaps,
     formula_columns : FormulaMaps]

NoFrame == [entry |-> "none"]

NoLocals == [row_idx |-> 0, data_start_row |-> 0, total_col_count |-> 0]

(***************************************************************************)
(* State.  A conversion classifies a CSV field with parse_value and writes *)
(* it with write_cell, or writes a host value with                         *)
(* write_py_value_with_format; a pattern is matched against a column name, *)
(* and a pattern-keyed map is applied to the columns of a table.           *)
(***************************************************************************)
VARIABLES
    pc,             \* "csv", "parsed", "py", "written", or "idle"
    raw,            \* the CSV field
    date_order,     \* the DateOrder of the conversion
    pyval,          \* the host value
    column_format,  \* the column's format, NoFormat when it has none
    cell,           \* the CellValue parse_value returned
    writer,         \* the function that wrote the cell
    sink,           \* the worksheet call the writer ended in
    mpc,            \* "match", "column_formats", "conditional_formats",
                    \* "validations", "done", or "idle"
    column_name,    \* the name given to matches_pattern
    pattern,        \* the pattern given to matches_pattern
    columns,        \* the column names of the table
    declared,       \* the pattern-keyed map, in declaration order
    called,         \* the function that ran
    result,         \* what it returned
    worksheet,      \* the conditional formats / validations registered
    spc,            \* "loop" while dfs_to_xlsx walks the sheets, "done", "idle"
    globals,        \* the global arguments of dfs_to_xlsx
    sheets,         \* the sheet tuples, in order
    effective,      \* the merged options of the sheets walked so far
    cpc,            \* the block a conversion is at, "done", or "idle"
    entry,          \* the entry point that is running
    config,         \* its arguments and the shape of its input
    sheet_no,       \* the sheet being written, from 1
    row_idx,        \* the next worksheet row of the sheet
    calls,          \* the worksheet and workbook calls issued, in order
    saved,          \* how many times workbook.save was invoked
    ret,            \* "none" while running, then "Ok" or "Err"
    err_at,         \* the block whose Err ended the conversion, or "none"
    qpc,            \* convert_csv_to_xlsx_parallel: "classify", "write",
                    \* "save", "done", or "idle"
    records,        \* the records read from the CSV file
    order,          \* the DateOrder of the parallel conversion
    parsed,         \* per record, the CellValues its task has produced
    written,        \* the write_cell calls made, in order
    fpc,            \* the function about to be called, "done", or "idle"
    arg,            \* its argument
    out,            \* what it returned
    wpc,            \* the block of the frame conversion to run next, "done",
                    \* or "idle"
    frame,          \* the frame and the options of the conversion
    ws,             \* the worksheet
    locals,         \* row_idx, data_start_row and total_col_count
    stats,          \* the (rows, columns) returned, or the Err
    seq,            \* convert_csv_to_xlsx: row_count, col_count, the index
                    \* of the next field and the write_cell calls made
    rets            \* what the two CSV converters returned

parseVars == <<pc, raw, date_order, pyval, column_format, cell, writer, sink>>

matchVars == <<mpc, column_name, pattern, columns, declared, called, result, worksheet>>

sheetVars == <<spc, globals, sheets, effective>>

convertVars == <<cpc, entry, config, sheet_no, row_idx, calls, saved, ret, err_at>>

parallelVars == <<qpc, records, order, parsed, written>>

pureVars == <<fpc, arg, out>>

frameVars == <<wpc, frame, ws, locals, stats>>

csvVars == <<seq, rets>>

laterVars == <<sheetVars, convertVars, parallelVars, pureVars, frameVars, csvVars>>

vars == <<parseVars, matchVars, laterVars>>

NoCell == [kind |-> "none"]

NoCall == [op |-> "none"]

NoResult == [ok |-> FALSE, none |-> TRUE]

\* no classification or write is under way
ParseIdle ==
    /\ pc = "idle"
    /\ raw = <<>>
    /\ date_order = "Auto"
    /\ pyval = PyNone
    /\ column_format = NoFormat
    /\ cell = NoCell
    /\ writer = "none"
    /\ sink = NoCall

\* no pattern is being matched and no map applied
MatchIdle ==
    /\ mpc = "idle"
    /\ column_name = <<>>
    /\ pattern = <<>>
    /\ columns = <<>>
    /\ declared = <<>>
    /\ called = "none"
    /\ result = NoResult
    /\ worksheet = <<>>

\* dfs_to_xlsx is not running
SheetsIdle ==
    /\ spc = "idle"
    /\ globals = GlobalDefaults
    /\ sheets = <<>>
    /\ effective = <<>>

\* no conversion is running
ConvertIdle ==
    /\ cpc = "idle"
    /\ entry = "none"
    /\ config = NoConfig
    /\ sheet_no = 0
    /\ row_idx = 0
    /\ calls = <<>>
    /\ saved = 0
    /\ ret = "none"
    /\ err_at = "none"

\* no parallel conversion is running
ParallelIdle ==
    /\ qpc = "idle"
    /\ records = <<>>
    /\ order = "Auto"
    /\ parsed = <<>>
    /\ written = <<>>

\* no parser is being called
PureIdle ==
    /\ fpc = "idle"
    /\ arg = <<>>
    /\ out = NoResult

FrameIdle ==
    /\ wpc = "idle"
    /\ frame = NoFrame
    /\ ws = NewWorksheet
    /\ locals = NoLocals
    /\ stats = NoResult

Ok(rows, cols) == [ok |-> TRUE, rows |-> rows, cols |-> cols]

NoSeq == [row_count |-> 0, col_count |-> 0, col_idx |-> 0, written |-> <<>>]

NoRets == [sequential |-> NoResult, parallel |-> NoResult]

CsvIdle == seq = NoSeq /\ rets = NoRets

EarlierIdle == ParseIdle /\ MatchIdle

LaterIdle ==
    SheetsIdle /\ ConvertIdle /\ ParallelIdle /\ PureIdle /\ FrameIdle /\ CsvIdle

(***************************************************************************)
(* The classifier and the writers                                          *)
(***************************************************************************)
InitParse ==
    /\ MatchIdle
    /\ LaterIdle
    /\ cell = NoCell
    /\ writer = "none"
    /\ sink = NoCall
    /\ \/ /\ pc = "csv"
          /\ raw \in RawTexts
          /\ date_order \in DateOrders
          /\ pyval = PyNone
          /\ column_format = NoFormat
       \/ /\ pc = "py"
          /\ raw = <<>>
          /\ date_order = "Auto"
          /\ pyval \in PyValues
          /\ column_format \in ColumnFormats

\* let cell_value = parse_value(value, date_order)
ParseValue ==
    /\ pc = "csv"
    /\ cell' = parse_value(raw, date_order)
    /\ pc' = "parsed"
    /\ UNCHANGED <<raw, date_order, pyval, column_format, writer, sink, matchVars, laterVars>>

\* convert.rs: write_cell(worksheet, row, col, cell_value, ..)
WriteCell ==
    /\ pc = "parsed"
    /\ \E call \in write_cell(cell) : sink' = call
    /\ writer' = "convert::write_cell"
    /\ pc' = "written"
    /\ UNCHANGED <<raw, date_order, pyval, column_format, cell, matchVars, laterVars>>

\* lib.rs: write_cell(worksheet, row, col, cell_value, ..)
LibWriteCell ==
    /\ pc = "parsed"
    /\ \E call \in lib_write_cell(cell) : sink' = call
    /\ writer' = "lib::write_cell"
    /\ pc' = "written"
    /\ UNCHANGED <<raw, date_order, pyval, column_format, cell, matchVars, laterVars>>

\* main.rs: write_value(&mut worksheet, row_count, col_idx as u16, value)
CliWriteValue ==
    /\ pc = "csv"
    /\ \E call \in write_value(raw) : sink' = call
    /\ writer' = "main::write_value"
    /\ pc' = "written"
    /\ UNCHANGED <<raw, date_order, pyval, column_format, cell, matchVars, laterVars>>

\* convert.rs: write_py_value_with_format(worksheet, row, col, value, .., column_format)
WritePyValue ==
    /\ pc = "py"
    /\ \E call \in write_py_value_with_format(pyval, column_format) : sink' = call
    /\ writer' = "convert::write_py_value_with_format"
    /\ pc' = "written"
    /\ UNCHANGED <<raw, date_order, pyval, column_format, cell, matchVars, laterVars>>

NextParse == ParseValue \/ WriteCell \/ LibWriteCell \/ CliWriteValue \/ WritePyValue

SpecParse == InitParse /\ [][NextParse]_vars

(***************************************************************************)
(* Patterns and pattern-keyed maps                                         *)
(***************************************************************************)
InitMatch ==
    /\ ParseIdle
    /\ LaterIdle
    /\ called = "none"
    /\ result = NoResult
    /\ worksheet = <<>>
    /\ \/ /\ mpc = "match"
          /\ column_name \in Names
          /\ pattern \in Patterns
          /\ columns = <<>>
          /\ declared = <<>>
       \/ /\ mpc = "column_formats"
          /\ column_name = <<>>
          /\ pattern = <<>>
          /\ columns \in ColumnLists
          /\ declared \in PatternMaps(FormatDicts)
       \/ /\ mpc = "conditional_formats"
          /\ column_name = <<>>
          /\ pattern = <<>>
          /\ columns \in ColumnLists
          /\ declared \in PatternMaps(ConditionalFormatConfigs)
       \/ /\ mpc = "validations"
          /\ column_name = <<>>
          /\ pattern = <<>>
          /\ columns \in ColumnLists
          /\ declared \in PatternMaps(ValidationConfigs)

\* parse.rs: matches_pattern(column_name, pattern)
MatchesPattern ==
    /\ mpc = "match"
    /\ result' = [panic |-> FALSE, v |-> matches_pattern(column_name, pattern)]
    /\ called' = "parse::matches_pattern"
    /\ mpc' = "done"
    /\ UNCHANGED <<column_name, pattern, columns, declared, worksheet, parseVars, laterVars>>

\* lib.rs: matches_pattern(column_name, pattern)
LibMatchesPattern ==
    /\ mpc = "match"
    /\ result' = lib_matches_pattern(column_name, pattern)
    /\ called' = "lib::matches_pattern"
    /\ mpc' = "done"
    /\ UNCHANGED <<column_name, pattern, columns, declared, worksheet, parseVars, laterVars>>

\* parse.rs: build_column_formats(py, &columns, &column_formats)
BuildColumnFormats ==
    /\ mpc = "column_formats"
    /\ result' = build_column_formats(columns, declared)
    /\ called' = "build_column_formats"
    /\ mpc' = "done"
    /\ UNCHANGED <<column_name, pattern, columns, declared, worksheet, parseVars, laterVars>>

\* features.rs: apply_conditional_formats(py, worksheet, &columns, .., &cond_formats)
ApplyConditionalFormats ==
    /\ mpc = "conditional_formats"
    /\ LET r == apply_conditional_formats(worksheet, columns, declared)
       IN  /\ result' = [ok |-> r.ok]
           /\ worksheet' = r.worksheet
    /\ called' = "apply_conditional_formats"
    /\ mpc' = "done"
    /\ UNCHANGED <<column_name, pattern, columns, declared, parseVars, laterVars>>

\* features.rs: apply_validations(py, worksheet, &columns, .., &validations)
ApplyValidations ==
    /\ mpc = "validations"
    /\ LET r == apply_validations(worksheet, columns, declared)
       IN  /\ result' = [ok |-> r.ok]
           /\ worksheet' = r.worksheet
    /\ called' = "apply_validations"
    /\ mpc' = "done"
    /\ UNCHANGED <<column_name, pattern, columns, declared, parseVars, laterVars>>

NextMatch ==
    \/ MatchesPattern
    \/ LibMatchesPattern
    \/ BuildColumnFormats
    \/ ApplyConditionalFormats
    \/ ApplyValidations

SpecMatch == InitMatch /\ [][NextMatch]_vars

(***************************************************************************)
(* dfs_to_xlsx: the per-sheet options of each sheet merged with the global *)
(* arguments, one sheet per loop iteration                                 *)
(***************************************************************************)
SheetNames == <<"first", "second">>

\* two sheets; one of them is a 3-tuple carrying an options dict
InitSheets ==
    /\ EarlierIdle
    /\ ConvertIdle
    /\ ParallelIdle
    /\ PureIdle
    /\ FrameIdle
    /\ CsvIdle
    /\ spc = "loop"
    /\ globals \in {GlobalDefaults, GlobalGiven}
    /\ \E with_options \in 1..Len(SheetNames), opts \in SheetOptions :
          sheets = [i \in 1..Len(SheetNames) |->
                       IF i = with_options
                       THEN SheetTuple(SheetNames[i], TRUE, opts)
                       ELSE SheetTuple(SheetNames[i], FALSE, NoOptions)]
    /\ effective = <<>>

\* for sheet in sheets: extract_sheet_info, then the merge with the globals
MergeSheetOptions ==
    /\ spc = "loop"
    /\ Len(effective) < Len(sheets)
    /\ effective' = Append(effective,
            EffectiveOptions(extract_sheet_info(sheets[Len(effective) + 1]), globals))
    /\ spc' = IF Len(effective) + 1 = Len(sheets) THEN "done" ELSE "loop"
    /\ UNCHANGED <<globals, sheets, parseVars, matchVars, convertVars,
                   parallelVars, pureVars, frameVars, csvVars>>

NextSheets == MergeSheetOptions

SpecSheets == InitSheets /\ [][NextSheets]_vars

(***************************************************************************)
(* The four entry points, block by block                                   *)
(***************************************************************************)
InitConvert ==
    /\ EarlierIdle
    /\ SheetsIdle
    /\ ParallelIdle
    /\ PureIdle
    /\ FrameIdle
    /\ CsvIdle
    /\ cpc = "start"
    /\ entry \in EntryPoints
    /\ config \in ConfigsOf(entry)
    /\ sheet_no = 1
    /\ row_idx = 0
    /\ calls = <<>>
    /\ saved = 0
    /\ ret = "none"
    /\ err_at = "none"

\* an Err that is dropped: the conversion goes on to the save
ReturnErr_dropped(step) ==
    /\ cpc' = "save"
    /\ ret' = "none"
    /\ err_at' = step
    /\ UNCHANGED <<sheet_no, row_idx, saved>>

\* the ? operator on an Err: the function returns, nothing later runs
ReturnErr(step) ==
    /\ cpc' = "done"
    /\ ret' = "Err"
    /\ err_at' = step
    /\ UNCHANGED <<sheet_no, row_idx, saved>>

GoOn(step) ==
    LET next == StepAfter(entry, step, sheet_no = config.sheet_count)
    IN  /\ cpc' = next
        /\ sheet_no' = IF next = "start" THEN sheet_no + 1 ELSE sheet_no
        /\ row_idx' =
              IF next = "start" THEN 0
              ELSE IF step = "header" /\ config.include_header THEN 1
              ELSE row_idx
        /\ UNCHANGED <<saved, ret, err_at>>

kept ==
    <<entry, config, parseVars, matchVars, sheetVars, parallelVars, pureVars, frameVars, csvVars>>

\* File::open and the reader, or add_worksheet, set_name,
\* parse_header_format, extract_columns and build_column_formats
Start ==
    /\ cpc = "start"
    /\ calls' = calls
    /\ \/ GoOn("start")
       \/ ReturnErr("start")
    /\ UNCHANGED kept

\* convert_csv_to_xlsx_parallel: parse every record, then add_worksheet and
\* set_name
Classify ==
    /\ cpc = "classify"
    /\ calls' = calls
    /\ \/ GoOn("classify")
       \/ ReturnErr("classify")
    /\ UNCHANGED kept

\* one block of the feature pipeline: its calls, then the next block, or
\* Err from its own test or from a call
RunBlock(step) ==
    /\ LET r == StepCalls(step, config, row_idx)
       IN  \/ /\ r.ok
              /\ calls' = calls \o r.calls
              /\ GoOn(step)
           \/ /\ ~r.ok
              /\ calls' = calls \o r.calls
              /\ ReturnErr(step)
           \/ /\ Fallible(r.calls)
              /\ calls' = calls
              /\ ReturnErr(step)
    /\ UNCHANGED kept

WriteHeader ==
    /\ cpc = "header"
    /\ RunBlock("header")

\* one record or data row: write_cell / write_py_value_with_format on each
\* of its fields
WriteRow ==
    /\ cpc = "rows"
    /\ \/ /\ row_idx - (IF config.include_header THEN 1 ELSE 0) < config.row_count
          /\ \/ /\ calls' = Append(calls, Call("rows", "write", row_idx))
                /\ row_idx' = row_idx + 1
                /\ UNCHANGED <<cpc, sheet_no, saved, ret, err_at>>
             \/ /\ calls' = calls
                /\ ReturnErr("rows")
       \/ /\ row_idx - (IF config.include_header THEN 1 ELSE 0) = config.row_count
          /\ calls' = calls
          /\ cpc' = StepAfter(entry, "rows", sheet_no = config.sheet_count)
          /\ UNCHANGED <<sheet_no, row_idx, saved, ret, err_at>>
    /\ UNCHANGED kept

AddTable ==
    /\ cpc = "table"
    /\ RunBlock("table")

ApplyFormulaColumns ==
    /\ cpc = "formula_columns"
    /\ RunBlock("formula_columns")

ConditionalFormatsBlock ==
    /\ cpc = "conditional_formats"
    /\ RunBlock("conditional_formats")

FreezePanes ==
    /\ cpc = "freeze_panes"
    /\ RunBlock("freeze_panes")

ColumnWidths ==
    /\ cpc = "column_widths"
    /\ RunBlock("column_widths")

RowHeights ==
    /\ cpc = "row_heights"
    /\ RunBlock("row_heights")

MergedRanges ==
    /\ cpc = "merged_ranges"
    /\ RunBlock("merged_ranges")

Hyperlinks ==
    /\ cpc = "hyperlinks"
    /\ RunBlock("hyperlinks")

Comments ==
    /\ cpc = "comments"
    /\ RunBlock("comments")

ValidationsBlock ==
    /\ cpc = "validations"
    /\ RunBlock("validations")

RichText ==
    /\ cpc = "rich_text"
    /\ RunBlock("rich_text")

Images ==
    /\ cpc = "images"
    /\ RunBlock("images")

\* workbook.save(output_path)?
Save ==
    /\ cpc = "save"
    /\ calls' = Append(calls, Call("save", "save", NoRow))
    /\ saved' = saved + 1
    /\ cpc' = "done"
    /\ \/ ret' = "Ok" /\ err_at' = "none"
       \/ ret' = "Err" /\ err_at' = "save"
    /\ UNCHANGED <<sheet_no, row_idx>>
    /\ UNCHANGED kept

NextConvert ==
    \/ Start
    \/ Classify
    \/ WriteHeader
    \/ WriteRow
    \/ AddTable
    \/ ApplyFormulaColumns
    \/ ConditionalFormatsBlock
    \/ FreezePanes
    \/ ColumnWidths
    \/ RowHeights
    \/ MergedRanges
    \/ Hyperlinks
    \/ Comments
    \/ ValidationsBlock
    \/ RichText
    \/ Images
    \/ Save

SpecConvert == InitConvert /\ [][NextConvert]_vars

(***************************************************************************)
(* convert_csv_to_xlsx_parallel: one task per record classifies its fields *)
(* one after the other, the tasks running in any interleaving; the         *)
(* collect() joins them; then the caller alone writes the cells            *)
(***************************************************************************)
InitParallel ==
    /\ EarlierIdle
    /\ SheetsIdle
    /\ ConvertIdle
    /\ PureIdle
    /\ FrameIdle
    /\ CsvIdle
    /\ qpc = "classify"
    /\ records \in ParallelFiles
    /\ order \in {"MDY", "DMY"}
    /\ parsed = [r \in 1..Len(records) |-> <<>>]
    /\ written = <<>>

notParallel == <<parseVars, matchVars, sheetVars, convertVars, pureVars, frameVars>>

\* the task of one record: parse_value on its next field
ClassifyField ==
    /\ qpc = "classify"
    /\ \E r \in 1..Len(records) :
          /\ Len(parsed[r]) < Len(records[r])
          /\ parsed' = [parsed EXCEPT
                          ![r] = Append(@, parse_value(records[r][Len(@) + 1], order))]
    /\ UNCHANGED <<qpc, records, order, written, csvVars, notParallel>>

\* .collect() returns when every task has; the worksheet is made after it
Collect ==
    /\ qpc = "classify"
    /\ AllClassified(records, parsed)
    /\ qpc' = "write"
    /\ UNCHANGED <<records, order, parsed, written, csvVars, notParallel>>

\* write_cell(worksheet, row_u32, col_u16, cell_value, ..) on the next cell
WriteParsedCell ==
    /\ qpc = "write"
    /\ Len(written) < Len(WriteOrder(parsed))
    /\ LET at == WriteOrder(parsed)[Len(written) + 1]
           cell_value == parsed[at[1] + 1][at[2] + 1]
       IN  \E call \in write_cell(cell_value) :
               written' = Append(written,
                   [row |-> at[1], col |-> at[2], cell |-> cell_value, call |-> call])
    /\ UNCHANGED <<qpc, records, order, parsed, csvVars, notParallel>>

\* workbook.save(output_path) after the loops, and Ok((row_count, col_count))
SaveParallel ==
    /\ qpc = "write"
    /\ Len(written) = Len(WriteOrder(parsed))
    /\ qpc' = "done"
    /\ rets' = [rets EXCEPT !.parallel = Ok(Len(records), MaxCols(records))]
    /\ UNCHANGED <<records, order, parsed, written, seq, notParallel>>

NextParallel == ClassifyField \/ Collect \/ WriteParsedCell \/ SaveParallel

SpecParallel == InitParallel /\ [][NextParallel]_vars

(***************************************************************************)
(* One file converted by convert_csv_to_xlsx and then by                   *)
(* convert_csv_to_xlsx_parallel                                            *)
(***************************************************************************)
InitCsv ==
    /\ EarlierIdle
    /\ SheetsIdle
    /\ ConvertIdle
    /\ PureIdle
    /\ FrameIdle
    /\ qpc = "sequential"
    /\ records \in CsvFiles
    /\ order \in DateOrders
    /\ parsed = [r \in 1..Len(records) |-> <<>>]
    /\ written = <<>>
    /\ seq = NoSeq
    /\ rets = NoRets

\* the body of the inner loop: parse_value and write_cell on the next field
SequentialField ==
    /\ qpc = "sequential"
    /\ seq.row_count < Len(records)
    /\ seq.col_idx < Len(records[seq.row_count + 1])
    /\ \E record \in {records[seq.row_count + 1]} :
       \E cell_value \in {parse_value(record[seq.col_idx + 1], order)} :
       \E call \in write_cell(cell_value) :
           seq' = [seq EXCEPT
                     !.col_count = IF Len(record) > @ THEN Len(record) ELSE @,
                     !.col_idx = @ + 1,
                     !.written = Append(@, [row |-> seq.row_count,
                                            col |-> seq.col_idx,
                                            cell |-> cell_value,
                                            call |-> call])]
    /\ UNCHANGED <<qpc, records, order, parsed, written, rets, notParallel>>

\* the end of a record: row_count += 1
SequentialRecordEnd ==
    /\ qpc = "sequential"
    /\ seq.row_count < Len(records)
    /\ seq.col_idx = Len(records[seq.row_count + 1])
    /\ seq' = [seq EXCEPT
                 !.col_count = IF Len(records[seq.row_count + 1]) > @
                               THEN Len(records[seq.row_count + 1]) ELSE @,
                 !.col_idx = 0,
                 !.row_count = @ + 1]
    /\ UNCHANGED <<qpc, records, order, parsed, written, rets, notParallel>>

\* workbook.save(output_path) and Ok((row_count, col_count)); the same file
\* then goes to convert_csv_to_xlsx_parallel
SequentialSave ==
    /\ qpc = "sequential"
    /\ seq.row_count = Len(records)
    /\ rets' = [rets EXCEPT !.sequential = Ok(seq.row_count, seq.col_count)]
    /\ qpc' = "classify"
    /\ UNCHANGED <<records, order, parsed, written, seq, notParallel>>

NextCsv ==
    \/ SequentialField
    \/ SequentialRecordEnd
    \/ SequentialSave
    \/ ClassifyField
    \/ Collect
    \/ WriteParsedCell
    \/ SaveParallel

SpecCsv == InitCsv /\ [][NextCsv]_vars

(***************************************************************************)
(* The parsers of cell references, ranges and colours, and the length test *)
(* of a list validation, each called on one argument                       *)
(***************************************************************************)
InitPure ==
    /\ EarlierIdle
    /\ SheetsIdle
    /\ ConvertIdle
    /\ ParallelIdle
    /\ FrameIdle
    /\ CsvIdle
    /\ out = NoResult
    /\ \/ fpc = "parse_cell_ref" /\ arg \in CellRefTexts
       \/ fpc = "parse_cell_range" /\ arg \in CellRangeTexts
       \/ fpc = "parse_color" /\ arg \in ColorTexts
       \/ fpc = "list_validation" /\ arg \in ListValues

notPure ==
    <<parseVars, matchVars, sheetVars, convertVars, parallelVars, frameVars, csvVars>>

Returned(function, r) == [fn |-> function, r |-> r]

\* apply_hyperlinks: parse_cell_ref(cell_ref)
ParseCellRef ==
    /\ fpc = "parse_cell_ref"
    /\ \E r \in parse_cell_ref(arg) : out' = Returned("parse_cell_ref", r)
    /\ fpc' = "done"
    /\ UNCHANGED <<arg, notPure>>

\* apply_merged_ranges: parse_cell_range(range_str)
ParseCellRange ==
    /\ fpc = "parse_cell_range"
    /\ \E r \in parse_cell_range(arg) : out' = Returned("parse_cell_range", r)
    /\ fpc' = "done"
    /\ UNCHANGED <<arg, notPure>>

\* parse_format_dict: parse_color(color_str)
ParseColor ==
    /\ fpc = "parse_color"
    /\ out' = Returned("parse_color", parse_color(arg))
    /\ fpc' = "done"
    /\ UNCHANGED <<arg, notPure>>

\* apply_validations: the "list" arm for a column the pattern matched
ListValidation ==
    /\ fpc = "list_validation"
    /\ out' = Returned("list_validation", list_validation(arg))
    /\ fpc' = "done"
    /\ UNCHANGED <<arg, notPure>>

NextPure == ParseCellRef \/ ParseCellRange \/ ParseColor \/ ListValidation

SpecPure == InitPure /\ [][NextPure]_vars

(***************************************************************************)
(* The serial of a date and of a date with a time of day (parse.rs), each  *)
(* called on one NaiveDate or NaiveDateTime.  A NaiveDateTime is its date  *)
(* and what num_seconds_from_midnight returns for its time.                *)
(***************************************************************************)
SerialYears == {1, 1899, 1900, 1904, 1999, 2000, 2024, 2100}

SerialDays == {1, 2, 15, 27, 28, 29, 30, 31}

\* the dates NaiveDate can hold, among the chosen years and days
NaiveDates ==
    {date \in [y : SerialYears, m : 1..12, d : SerialDays] :
       ValidYmd(date.y, date.m, date.d)}

\* midnight, one second later, noon, and the last second of the day
SecondsFromMidnight == {0, 1, 43200, 86399}

NaiveDateTimes == {[date |-> d, secs |-> t] : d \in NaiveDates, t \in SecondsFromMidnight}

InitSerial ==
    /\ EarlierIdle
    /\ SheetsIdle
    /\ ConvertIdle
    /\ ParallelIdle
    /\ FrameIdle
    /\ CsvIdle
    /\ out = NoResult
    /\ \/ fpc = "naive_date_to_excel" /\ arg \in NaiveDates
       \/ fpc = "naive_datetime_to_excel" /\ arg \in NaiveDateTimes

\* parse_value, write_py_value_with_format: naive_date_to_excel(&date)
NaiveDateToExcel ==
    /\ fpc = "naive_date_to_excel"
    /\ out' = Returned("naive_date_to_excel", Serial(naive_date_to_excel(arg), 0))
    /\ fpc' = "done"
    /\ UNCHANGED <<arg, notPure>>

\* parse_value, write_py_value_with_format: naive_datetime_to_excel(&dt)
NaiveDateTimeToExcel ==
    /\ fpc = "naive_datetime_to_excel"
    /\ out' = Returned("naive_datetime_to_excel", naive_datetime_to_excel(arg))
    /\ fpc' = "done"
    /\ UNCHANGED <<arg, notPure>>

NextSerial == NaiveDateToExcel \/ NaiveDateTimeToExcel

SpecSerial == InitSerial /\ [][NextSerial]_vars

(***************************************************************************)
(* convert_dataframe_to_xlsx and the loop body of dfs_to_xlsx on one       *)
(* frame, with the options that change the worksheet's cells, tables and   *)
(* widths; the remaining options are None, so their blocks do nothing.     *)
(***************************************************************************)
InitFrame ==
    /\ EarlierIdle
    /\ SheetsIdle
    /\ ConvertIdle
    /\ ParallelIdle
    /\ PureIdle
    /\ CsvIdle
    /\ wpc = "header"
    /\ frame \in Frames
    /\ ws = NewWorksheet
    /\ locals = NoLocals
    /\ stats = NoResult

notFrame ==
    <<frame, parseVars, matchVars, sheetVars, convertVars, parallelVars, pureVars, csvVars>>

\* a worksheet call of the block returns Err: the ? operator returns it
FrameErr ==
    /\ wpc' = "done"
    /\ stats' = [ok |-> FALSE, rows |-> 0, cols |-> 0]

\* the header.  convert_dataframe_to_xlsx writes it in its first block when
\* no table style is given and in its second block (the one that sets
\* data_start_row) when one is; dfs_to_xlsx has the first block only, with
\* no test of the table style, and takes 0 for data_start_row
FrameHeader ==
    /\ wpc = "header"
    /\ \/ /\ frame.include_header
          /\ frame.entry = "dfs_to_xlsx" \/ ~frame.table_style
          /\ ws' = [ws EXCEPT !.cells = PutAll(@, HeaderWrites(frame.columns))]
          /\ locals' = [locals EXCEPT
                           !.row_idx = locals.row_idx + 1,
                           !.data_start_row =
                               IF frame.entry = "dfs_to_xlsx" THEN 0
                               ELSE SaturatingSub1(locals.row_idx + 1)]
          /\ wpc' = "rows"
          /\ UNCHANGED stats
       \/ /\ frame.include_header
          /\ frame.entry = "convert_dataframe_to_xlsx" /\ frame.table_style
          /\ ws' = [ws EXCEPT !.cells = PutAll(@, HeaderWrites(frame.columns))]
          /\ locals' = [locals EXCEPT !.row_idx = 1, !.data_start_row = 0]
          /\ wpc' = "rows"
          /\ UNCHANGED stats
       \/ /\ ~frame.include_header
          /\ locals' = [locals EXCEPT
                           !.data_start_row =
                               IF frame.entry = "dfs_to_xlsx" THEN 0
                               ELSE SaturatingSub1(locals.row_idx)]
          /\ wpc' = "rows"
          /\ UNCHANGED <<ws, stats>>
       \/ /\ frame.include_header
          /\ frame.columns # <<>>
          /\ FrameErr
          /\ UNCHANGED <<ws, locals>>
    /\ UNCHANGED notFrame

\* the data rows: one write for each value, row_idx += 1 for each row
FrameRows ==
    /\ wpc = "rows"
    /\ \/ /\ ws' = [ws EXCEPT !.cells =
                        PutAll(@, DataWrites(locals.row_idx, frame.row_count,
                                             Len(frame.columns)))]
          /\ locals' = [locals EXCEPT !.row_idx = @ + frame.row_count]
          /\ wpc' = "table"
          /\ UNCHANGED stats
       \/ /\ frame.row_count > 0
          /\ FrameErr
          /\ UNCHANGED <<ws, locals>>
    /\ UNCHANGED notFrame

\* add_table(data_start_row, 0, last_row, last_col, &table)
FrameTable ==
    /\ wpc = "table"
    /\ LET last_row == SaturatingSub1(locals.row_idx)
           last_col == SaturatingSub1(Len(frame.columns))
           adds     == /\ frame.table_style
                       /\ ~frame.constant_memory
                       /\ frame.row_count > 0
                       /\ last_row >= locals.data_start_row
       IN  \/ /\ adds
              /\ ws' = [ws EXCEPT !.tables =
                            Append(@, [first_row |-> locals.data_start_row,
                                       first_col |-> 0,
                                       last_row |-> last_row,
                                       last_col |-> last_col])]
              /\ wpc' = "formula_columns"
              /\ UNCHANGED <<locals, stats>>
           \/ /\ ~adds
              /\ wpc' = "formula_columns"
              /\ UNCHANGED <<ws, locals, stats>>
           \/ /\ adds
              /\ FrameErr
              /\ UNCHANGED <<ws, locals>>
    /\ UNCHANGED notFrame

\* the formula columns, after the data columns
FrameFormulaColumns ==
    /\ wpc = "formula_columns"
    /\ LET data_row_start == IF frame.include_header THEN 1 ELSE 0
           data_row_end   == SaturatingSub1(locals.row_idx)
           applies == /\ frame.formula_columns.some
                      /\ frame.formula_columns.v # <<>>
                      /\ frame.row_count > 0
                      /\ data_row_end >= data_row_start
           r == apply_formula_columns(frame.formula_columns.v, Len(frame.columns),
                                      data_row_start, data_row_end)
       IN  \/ /\ applies
              /\ ws' = [ws EXCEPT !.cells = PutAll(@, r.writes)]
              /\ locals' = [locals EXCEPT !.total_col_count =
                                Len(frame.columns) + r.col_offset]
              /\ wpc' = "column_widths"
              /\ UNCHANGED stats
           \/ /\ ~applies
              /\ locals' = [locals EXCEPT !.total_col_count = Len(frame.columns)]
              /\ wpc' = "column_widths"
              /\ UNCHANGED <<ws, stats>>
           \/ /\ applies
              /\ FrameErr
              /\ UNCHANGED <<ws, locals>>
    /\ UNCHANGED notFrame

\* the column widths and the autofit
FrameColumnWidths ==
    /\ wpc = "column_widths"
    /\ \/ /\ ws' = ColumnWidthBlock(ws, Len(frame.columns), frame.column_widths,
                                    frame.autofit, frame.constant_memory)
          /\ wpc' = "save"
          /\ UNCHANGED <<locals, stats>>
       \/ /\ frame.column_widths.some
          /\ \E c \in 0..(Len(frame.columns) - 1) : WidthOf(frame.column_widths.v, c).some
          /\ FrameErr
          /\ UNCHANGED <<ws, locals>>
    /\ UNCHANGED notFrame

\* workbook.save(output_path)?; Ok((row_idx, total_col_count))
FrameSave ==
    /\ wpc = "save"
    /\ wpc' = "done"
    /\ \/ stats' = Ok(locals.row_idx, locals.total_col_count)
       \/ stats' = [ok |-> FALSE, rows |-> 0, cols |-> 0]
    /\ UNCHANGED <<ws, locals>>
    /\ UNCHANGED notFrame

NextFrame ==
    \/ FrameHeader
    \/ FrameRows
    \/ FrameTable
    \/ FrameFormulaColumns
    \/ FrameColumnWidths
    \/ FrameSave

SpecFrame == InitFrame /\ [][NextFrame]_vars

(***************************************************************************)
(* Properties of the classifier and the writers (SpecParse)                *)
(***************************************************************************)
\* two CellValues are the same: the same variant holding the same value
SameCell(a, b) == a.kind = b.kind /\ (a.kind # "Empty" => a.v = b.v)

\* the number a run of digits denotes
FieldNum(s) == MagToNat(DigitsOf(s))

\* the serial of the date y-m-d at midnight: days since 1899-12-30
DateSerial(y, m, d) == Serial(DaysFromCivil(y, m, d) - DaysFromCivil(1899, 12, 30), 0)

\* C1, as claimed: for every integer v, parse_value of the decimal text of v
\* is Integer(v) when |v| <= 2^53 and String(the text) when |v| > 2^53,
\* under every date order.
C1_IntegerUpTo2Pow53ElseString ==
    \A neg \in BOOLEAN, m \in IntMagnitudes :
        (cell # NoCell /\ raw = DecimalText(neg, m)) =>
            SameCell(cell, IF MagLeq(m, MAX_SAFE_INT) THEN Integer(I64(neg, m))
                           ELSE String(raw))

\* C1, the failing input: the text of 2^63 + 1 is classified as the Float
\* 2^63 and written as a number
C1_BigIntegerWrittenAsFloat ==
    /\ pc = "written"
    /\ writer = "convert::write_cell"
    /\ raw = DecimalText(FALSE, MagInc(I64_MIN_MAG))
    /\ SameCell(cell, Float(F64Finite(FALSE, I64_MIN_MAG, 0)))
    /\ sink.op = "number"
    /\ sink.v = cell.v

\* C2, as claimed: every 64-bit integer v written by write_cell or by the
\* integer branches of write_py_value_with_format reaches the sink as a
\* number when |v| <= 2^53 and as the string of its decimal text otherwise.
C2_NumberIffSafeElseText ==
    LET csv == pc = "written" /\ cell # NoCell /\ cell.kind = "Integer"
        py  == /\ pc = "written"
               /\ cell = NoCell
               /\ pyval.type_name \in {"int", "int64"}
               /\ pyval.i64.ok
        v   == IF csv THEN cell.v ELSE pyval.i64.v
    IN  (csv \/ py) =>
            IF MagLeq(v.mag, MAX_SAFE_INT)
            THEN sink.op = "number" /\ sink.v = I64AsF64(v)
            ELSE sink.op = "string" /\ sink.v = I64ToString(v)

\* C2, the failing input: convert.rs write_cell writes i64::MIN as a number
C2_I64MinWrittenAsNumber ==
    /\ pc = "written"
    /\ writer = "convert::write_cell"
    /\ SameCell(cell, Integer(I64_MIN))
    /\ sink.op = "number"

\* C3: parse_value returns one CellValue for every input and date order, the
\* result of the first attempt that succeeds in the order: empty after
\* trimming, i64, f64 (Empty when NaN or infinite), "true"/"false" without
\* regard to case, the datetime patterns, the date patterns of the order, and
\* String of the trimmed input when none succeeds.
C3_FirstSucceedingAttempt ==
    cell # NoCell =>
        LET t     == Trim(raw)
            int   == ParseI64(t)
            float == ParseF64(t)
            isTrue  == EqIgnoreAsciiCase(t, TrueText)
            isFalse == EqIgnoreAsciiCase(t, FalseText)
            pats  == patterns(date_order)
            dts   == {i \in 1..Len(DATETIME_PATTERNS) :
                        NaiveDateTimeParse(t, DATETIME_PATTERNS[i]).ok}
            ds    == {i \in 1..Len(pats) : NaiveDateParse(t, pats[i]).ok}
            dt1   == CHOOSE i \in dts : \A j \in dts : i <= j
            d1    == CHOOSE i \in ds : \A j \in ds : i <= j
        IN  SameCell(cell,
                IF t = <<>> THEN Empty
                ELSE IF int.ok THEN Integer(int.v)
                ELSE IF float.ok
                THEN IF IsNaN(float.f) \/ IsInfinite(float.f) THEN Empty
                     ELSE Float(float.f)
                ELSE IF isTrue \/ isFalse THEN Boolean(isTrue)
                ELSE IF dts # {}
                THEN DateTime(naive_datetime_to_excel(
                                NaiveDateTimeParse(t, DATETIME_PATTERNS[dt1])))
                ELSE IF ds # {}
                THEN Date(Serial(naive_date_to_excel(
                                   NaiveDateParse(t, pats[d1]).date), 0))
                ELSE String(t))

\* a padded field no attempt accepts is the String of its trimmed text
C3_PaddedTextFallsThrough ==
    /\ pc = "parsed"
    /\ raw = <<" ", "h", "e", "l", "l", "o", "\t">>
    /\ SameCell(cell, String(<<"h", "e", "l", "l", "o">>))

\* C4: under every date order parse_value returns Empty for the empty
\* string, for a string of whitespace only and for a string that parses as
\* a NaN or an infinity, and never returns a Float that is NaN or infinite.
C4_EmptyForBlankNanAndInfinity ==
    cell # NoCell =>
        LET t     == Trim(raw)
            float == ParseF64(t)
        IN  /\ (\A i \in 1..Len(raw) : IsWhitespace(raw[i])) => cell.kind = "Empty"
            /\ (float.ok /\ (IsNaN(float.f) \/ IsInfinite(float.f))) =>
                   cell.kind = "Empty"
            /\ cell.kind = "Float" => ~IsNaN(cell.v) /\ ~IsInfinite(cell.v)

\* "-inf" is classified as Empty
C4_MinusInfIsEmpty ==
    /\ pc = "parsed"
    /\ raw = <<"-", "i", "n", "f">>
    /\ date_order = "DMY"
    /\ cell.kind = "Empty"

\* C5: a text YYYY-MM-DD or YYYY/MM/DD of a valid calendar date is classified
\* as the Date of that day under Auto, MDY and DMY alike, and
\* DateOrder::patterns lists the two ISO patterns first under every order.
C5_IsoDateSameUnderEveryOrder ==
    /\ \A o \in DateOrders :
           SubSeq(patterns(o), 1, Len(DATE_PATTERNS_ISO)) = DATE_PATTERNS_ISO
    /\ \A y \in YearFields, a \in DayMonthFields, b \in DayMonthFields,
          sep \in DateSeparators :
           (/\ cell # NoCell
            /\ raw = y \o <<sep>> \o a \o <<sep>> \o b
            /\ ValidYmd(FieldNum(y), FieldNum(a), FieldNum(b))) =>
               /\ SameCell(cell, Date(DateSerial(FieldNum(y), FieldNum(a), FieldNum(b))))
               /\ \A o \in DateOrders : SameCell(parse_value(raw, o), cell)

\* "2024/01/12" under MDY is the Date 45303
C5_IsoDateUnderMdy ==
    /\ pc = "parsed"
    /\ raw = <<"2", "0", "2", "4", "/", "0", "1", "/", "1", "2">>
    /\ date_order = "MDY"
    /\ SameCell(cell, Date(Serial(45303, 0)))

\* C6: a text AA-BB-YYYY or AA/BB/YYYY with AA and BB in 1..12 is, under
\* MDY, the Date with month AA and day BB; under DMY, the Date with day AA
\* and month BB; under Auto, the same Date as under DMY.
C6_DayMonthOrder ==
    \A y \in YearFields, a \in DayMonthFields, b \in DayMonthFields,
       sep \in DateSeparators :
        (/\ cell # NoCell
         /\ raw = a \o <<sep>> \o b \o <<sep>> \o y
         /\ FieldNum(a) \in 1..12
         /\ FieldNum(b) \in 1..12) =>
            SameCell(cell,
                IF date_order = "MDY"
                THEN Date(DateSerial(FieldNum(y), FieldNum(a), FieldNum(b)))
                ELSE Date(DateSerial(FieldNum(y), FieldNum(b), FieldNum(a))))

\* "01-02-2024" under Auto is February 1, 2024: the Date 45323
C6_AutoReadsDayFirst ==
    /\ pc = "parsed"
    /\ raw = <<"0", "1", "-", "0", "2", "-", "2", "0", "2", "4">>
    /\ date_order = "Auto"
    /\ SameCell(cell, Date(Serial(45323, 0)))

(***************************************************************************)
(* Properties of the patterns and the pattern-keyed maps (SpecMatch)       *)
(***************************************************************************)
\* C7: matches_pattern(name, pattern) is: name contains the text between the
\* two '*' when the pattern starts and ends with '*'; name ends with the text
\* after the '*' when only the first character is '*'; name starts with the
\* text before the '*' when only the last character is '*'; name = pattern
\* otherwise.
C7_MatchesPatternSemantics ==
    (mpc = "done" /\ called = "parse::matches_pattern") =>
        LET n     == Len(pattern)
            k     == Len(column_name)
            first == n > 0 /\ pattern[1] = "*"
            last  == n > 0 /\ pattern[n] = "*"
            \* pattern[lo..hi] stands in the name after its first i characters
            At(i, lo, hi) ==
                /\ i >= 0
                /\ i + (hi - lo + 1) <= k
                /\ \A j \in lo..hi : column_name[i + j - lo + 1] = pattern[j]
        IN  result.v =
                IF first /\ last THEN \E i \in 0..k : At(i, 2, n - 1)
                ELSE IF first THEN At(k - (n - 1), 2, n)
                ELSE IF last THEN At(0, 1, n - 1)
                ELSE column_name = pattern

\* "*a" matches "ba" by its ending
C7_SuffixMatch ==
    /\ mpc = "done"
    /\ called = "parse::matches_pattern"
    /\ pattern = <<"*", "a">>
    /\ column_name = <<"b", "a">>
    /\ result.v = TRUE

\* C8, as claimed: for every column name, the empty one included,
\* matches_pattern(name, "*") and matches_pattern(name, "**") return true and
\* do not panic, in parse.rs and in lib.rs.
C8_StarMatchesEveryName ==
    (/\ mpc = "done"
     /\ called \in {"parse::matches_pattern", "lib::matches_pattern"}
     /\ pattern \in {<<"*">>, <<"*", "*">>}) =>
        ~result.panic /\ result.v

\* C8, the failing input: lib.rs matches_pattern panics on the pattern "*"
C8_LibPanicsOnLoneStar ==
    /\ mpc = "done"
    /\ called = "lib::matches_pattern"
    /\ pattern = <<"*">>
    /\ column_name = <<>>
    /\ result.panic

\* C9: build_column_formats returns one entry per column, in column order:
\* the format of the first declared pattern matching the column name, None
\* when no declared pattern matches.  Patterns declared after the first match
\* have no effect: the call fails only when the first matching pattern of
\* some column holds a format that does not parse.
C9_FirstDeclaredPatternWins ==
    (mpc = "done" /\ called = "build_column_formats") =>
        LET Matching(c) == {j \in 1..Len(declared) :
                              matches_pattern(columns[c], declared[j][1])}
            First(c)    == CHOOSE j \in Matching(c) : \A k \in Matching(c) : j <= k
            FirstFormat(c) == parse_column_format(declared[First(c)][2])
            Bad == {c \in 1..Len(columns) :
                      Matching(c) # {} /\ ~FirstFormat(c).ok}
        IN  IF Bad # {} THEN ~result.ok
            ELSE /\ result.ok
                 /\ Len(result.formats) = Len(columns)
                 /\ \A c \in 1..Len(columns) :
                        result.formats[c] =
                            IF Matching(c) = {} THEN None
                            ELSE Some(FirstFormat(c).v)

\* "ab" is matched by "a*" (red) and by "*" (blue), declared in that order,
\* and gets the red format
C9_OverlappingPatterns ==
    /\ mpc = "done"
    /\ called = "build_column_formats"
    /\ columns = <<<<"b">>, <<"a", "b">>>>
    /\ declared = << <<(<<"a", "*">>), [bg_color |-> <<"r", "e", "d">>]>>,
                     <<(<<"*">>), [bg_color |-> <<"b", "l", "u", "e">>]>> >>
    /\ result.ok
    /\ result.formats = <<Some([background_color |-> 255]),
                          Some([background_color |-> 16711680])>>

\* C10, as claimed: apply_conditional_formats and apply_validations register
\* for a column only the config of the first declared pattern matching it;
\* no column gets more than one registration from one map.
C10_OnlyFirstMatchRegistered ==
    (mpc = "done" /\ called \in {"apply_conditional_formats", "apply_validations"}) =>
        \A c \in 1..Len(columns) :
            LET regs     == {i \in 1..Len(worksheet) : worksheet[i].col = c - 1}
                Matching == {j \in 1..Len(declared) :
                               matches_pattern(columns[c], declared[j][1])}
            IN  /\ Cardinality(regs) <= 1
                /\ \A i \in regs, j \in Matching :
                       worksheet[i].pattern = declared[j][1] =>
                           \A k \in Matching : j <= k

\* C10, the failing input: the column "ab" is matched by "a*" and by "*" and
\* gets the conditional formats of both
C10_ColumnRegisteredTwice ==
    /\ mpc = "done"
    /\ called = "apply_conditional_formats"
    /\ result.ok
    /\ columns = <<<<"a", "b">>>>
    /\ worksheet = <<[col |-> 0, pattern |-> <<"a", "*">>, type |-> "data_bar"],
                     [col |-> 0, pattern |-> <<"*">>, type |-> "icon_set"]>>

(***************************************************************************)
(* Properties of the per-sheet merge (SpecSheets)                          *)
(***************************************************************************)
\* the sheet supplies the field: its options dict holds a value under the
\* key (for table_style None is a value too: no table on this sheet)
Supplied(sheet_tuple, field) ==
    /\ sheet_tuple.has_options
    /\ \/ sheet_tuple.opts[field].py = "value"
       \/ field = "table_style" /\ sheet_tuple.opts[field].py = "None"

MapFields ==
    {"column_widths", "row_heights", "column_formats", "conditional_formats",
     "formula_columns"}

\* what a value puts in force on a sheet: a collection that is not given
\* and an empty one both put no entry in force
InForce(field, value) ==
    IF field \in NonEmptyFields \cup {"row_heights"}
    THEN IF value.some THEN value.v ELSE <<>>
    ELSE value

\* C11: for every sheet walked and every field, the effective value is the
\* value the sheet supplies when it supplies one and the global value
\* otherwise.
C11_OverrideElseGlobal ==
    \A i \in 1..Len(effective) : \A f \in SheetFields :
        InForce(f, effective[i][f]) =
            IF Supplied(sheets[i], f)
            THEN InForce(f, ExtractGlobal(f, sheets[i].opts[f]))
            ELSE InForce(f, ExtractGlobal(f, globals[f]))

\* a sheet supplies an empty merged_ranges list and gets the global list
C11_EmptyListGetsGlobal ==
    \E i \in 1..Len(effective) :
        /\ Supplied(sheets[i], "merged_ranges")
        /\ sheets[i].opts["merged_ranges"].v = <<>>
        /\ effective[i]["merged_ranges"].some
        /\ effective[i]["merged_ranges"].v # <<>>
        /\ effective[i]["merged_ranges"] = ExtractGlobal("merged_ranges", globals["merged_ranges"])

\* C12: whenever a sheet supplies a map-valued field, the effective map of
\* that sheet is exactly the supplied map, an empty one included.
C12_SuppliedMapReplacesGlobal ==
    \A i \in 1..Len(effective) : \A f \in MapFields :
        Supplied(sheets[i], f) =>
            InForce(f, effective[i][f]) = InForce(f, ExtractGlobal(f, sheets[i].opts[f]))

\* a sheet supplies an empty column_formats map and the global map's entry
\* is in force on it
C12_EmptyMapGetsGlobalEntries ==
    \E i \in 1..Len(effective) :
        /\ Supplied(sheets[i], "column_formats")
        /\ sheets[i].opts["column_formats"].v = <<>>
        /\ effective[i]["column_formats"].some
        /\ \E n \in 1..Len(effective[i]["column_formats"].v) :
               effective[i]["column_formats"].v[n] = <<"global_key", "column_formats">>

(***************************************************************************)
(* Properties of the conversions (SpecConvert)                             *)
(***************************************************************************)
\* the order of the steps
ClaimedOrder ==
    <<"header", "rows", "table", "formula_columns", "conditional_formats",
      "freeze_panes", "column_widths", "row_heights", "merged_ranges",
      "hyperlinks", "comments", "validations", "rich_text", "images", "save">>

Place(step) == CHOOSE n \in 1..Len(ClaimedOrder) : ClaimedOrder[n] = step

\* convert_dataframe_to_xlsx without the constant-memory mode
FullFrameConversion ==
    entry = "convert_dataframe_to_xlsx" /\ ~config.constant_memory

\* C13: without constant-memory, convert_dataframe_to_xlsx issues its calls
\* in the order header, data rows, table, formula columns, conditional
\* formats, freeze panes, column widths / autofit, row heights, merged
\* ranges, hyperlinks, notes, validations, rich text, images, save: no call
\* of a later step comes before a call of an earlier step.
C13_CallsInStepOrder ==
    FullFrameConversion =>
        \A i \in 1..Len(calls) : \A j \in 1..Len(calls) :
            i < j => Place(calls[i].step) <= Place(calls[j].step)

\* a finished conversion that issued a call of every step
C13_EveryStepIssued ==
    /\ FullFrameConversion
    /\ cpc = "done"
    /\ ret = "Ok"
    /\ \A n \in 1..Len(ClaimedOrder) :
           \E i \in 1..Len(calls) : calls[i].step = ClaimedOrder[n]

\* convert_dataframe_to_xlsx in the constant-memory mode
ConstantMemoryConversion ==
    entry = "convert_dataframe_to_xlsx" /\ config.constant_memory

\* C14: with constant_memory, convert_dataframe_to_xlsx issues only the
\* header write and the data-row writes before the save, so no write targets
\* a row earlier than a row already written.
C14_OnlyHeaderAndRowsBeforeSave ==
    ConstantMemoryConversion =>
        /\ \A i \in 1..Len(calls) : calls[i].step \in {"header", "rows", "save"}
        /\ \A i \in 1..Len(calls) : \A j \in 1..Len(calls) :
               (i < j /\ calls[i].row # NoRow /\ calls[j].row # NoRow)
                   => calls[i].row <= calls[j].row

\* in the constant-memory mode a formula-column write targets a row above a
\* data row already written
C14_FormulaWriteAboveWrittenRow ==
    /\ ConstantMemoryConversion
    /\ \E i \in 1..Len(calls) : \E j \in 1..Len(calls) :
           /\ i < j
           /\ calls[i].step = "rows"
           /\ calls[j].step = "formula_columns"
           /\ calls[j].row # NoRow
           /\ calls[j].row < calls[i].row

\* the calls of one step
CallsOf(step) == SelectSeq(calls, LAMBDA c : c.step = step)

\* C15: in every entry point save is invoked at most once, only after every
\* step of every sheet has succeeded (the last sheet reached, every row of
\* every sheet written, no Err before); after an Err of a step save is never
\* invoked, no later call is issued, and the Err is returned.
C15_SaveOnceAfterEverything ==
    /\ saved <= 1
    /\ Len(CallsOf("save")) = saved
    /\ saved = 1 =>
           /\ calls[Len(calls)].step = "save"
           /\ cpc = "done"
           /\ err_at \in {"none", "save"}
           /\ sheet_no = config.sheet_count
           /\ Len(CallsOf("rows")) = config.sheet_count * config.row_count
    /\ err_at \notin {"none", "save"} =>
           /\ saved = 0
           /\ cpc = "done"
           /\ ret = "Err"
           /\ ~ENABLED NextConvert
    /\ (cpc = "done" /\ ret = "Ok") => saved = 1

\* dfs_to_xlsx wrote both sheets and saved once
C15_TwoSheetsSavedOnce ==
    /\ entry = "dfs_to_xlsx"
    /\ cpc = "done"
    /\ ret = "Ok"
    /\ saved = 1
    /\ sheet_no = 2
    /\ config.row_count > 0
    /\ config.features # {}

\* an entry has no "type" key, or one the function does not know
BadType(entries, types) ==
    \E n \in 1..Len(entries) :
        "type" \notin DOMAIN entries[n][2] \/ entries[n][2].type \notin types

\* the conversion is given a conditional format or a validation of an
\* unknown or missing type
BadTypeConfigured ==
    \/ /\ "conditional_formats" \in config.features
       /\ BadType(config.conditional_formats, ConditionalFormatTypes)
    \/ /\ "validations" \in config.features
       /\ BadType(config.validations, ValidationTypes)

\* C17: a conditional format or data validation whose type is unknown or
\* missing makes the conversion fail, whichever columns its pattern matches
\* and however many data rows the frame has.
C17_BadTypeFailsConversion ==
    (entry = "convert_dataframe_to_xlsx" /\ cpc = "done" /\ BadTypeConfigured)
        => ret = "Err" /\ saved = 0

\* a frame without data rows, a pattern that matches every column, a bad
\* type: the workbook is saved and Ok returned
C17_BadTypeSavedOnEmptyFrame ==
    /\ entry = "convert_dataframe_to_xlsx"
    /\ cpc = "done"
    /\ BadTypeConfigured
    /\ config.row_count = 0
    /\ ~config.constant_memory
    /\ config.conditional_formats[1][1] = <<"*">>
    /\ ret = "Ok"
    /\ saved = 1

(***************************************************************************)
(* Properties of the parallel conversion (SpecParallel)                    *)
(***************************************************************************)
\* C16: while the tasks classify nothing is written; nothing is written
\* before every field is classified; the writes come in row-major order,
\* each cell once; and the value written for a cell is the parse_value of
\* its field, under every interleaving of the tasks.
C16_ClassifyThenWriteInOrder ==
    /\ qpc = "classify" => written = <<>>
    /\ written # <<>> => AllClassified(records, parsed)
    /\ \A k \in 1..Len(written) : \A l \in 1..Len(written) :
           k < l => \/ written[k].row < written[l].row
                    \/ /\ written[k].row = written[l].row
                       /\ written[k].col < written[l].col
    /\ \A k \in 1..Len(written) :
           /\ written[k].row + 1 \in 1..Len(records)
           /\ written[k].col + 1 \in 1..Len(records[written[k].row + 1])
           /\ LET field == records[written[k].row + 1][written[k].col + 1]
              IN  /\ SameCell(written[k].cell, parse_value(field, order))
                  /\ written[k].call \in write_cell(parse_value(field, order))
    /\ qpc = "done" =>
           \A r \in 1..Len(records) : \A c \in 1..Len(records[r]) :
               \E k \in 1..Len(written) :
                   written[k].row = r - 1 /\ written[k].col = c - 1

\* two records of two fields, all four cells written and the file saved
C16_TwoRecordsWritten ==
    /\ qpc = "done"
    /\ Len(records) >= 2
    /\ Len(records[1]) = 2
    /\ Len(records[2]) = 2
    /\ Len(written) >= 4
    /\ \E k \in 1..Len(written) : written[k].cell.kind = "Date"

(***************************************************************************)
(* Cell references, list validations and colours                           *)
(***************************************************************************)
\* the letters a reference starts with
RefLetters(t) == SubSeq(t, 1, LeadingLetters(t))

\* what follows them
RefRow(t) == SubSeq(t, LeadingLetters(t) + 1, Len(t))

\* A=0, Z=25, AA=26, in unbounded arithmetic
RECURSIVE ColumnIndex1(_, _)
ColumnIndex1(letters, acc) ==
    IF letters = <<>> THEN acc
    ELSE ColumnIndex1(Tail(letters),
                      26 * acc + IndexIn(UpperLetters, to_uppercase(<<Head(letters)>>)[1]))

ColumnIndex(letters) == ColumnIndex1(letters, 0) - 1

\* one or more ASCII letters with a column index of 16 bits, then a decimal
\* row number >= 1
WellFormedRef(t) ==
    /\ RefLetters(t) # <<>>
    /\ ColumnIndex(RefLetters(t)) <= 65535
    /\ RefRow(t) # <<>>
    /\ AllDigits(RefRow(t))
    /\ DigitsOf(RefRow(t)) # <<0>>

\* a decimal row number that 32 bits cannot hold
RowBeyondU32(t) ==
    /\ RefRow(t) # <<>>
    /\ AllDigits(RefRow(t))
    /\ MagLess(U32_MAX_MAG, DigitsOf(RefRow(t)))

CellRefReturned == fpc = "done" /\ out.fn = "parse_cell_ref"

CellRangeReturned == fpc = "done" /\ out.fn = "parse_cell_range"

\* C18: parse_cell_ref returns Ok((row - 1, column index)) exactly for the
\* references made of one or more ASCII letters and a decimal row number
\* >= 1 whose column index fits 16 bits, and an error, never a panic or
\* another cell, for every other string; parse_cell_range returns Ok only
\* for two such references separated by exactly one ':'.  The reference is
\* read without the white space around it, and a row number beyond 32 bits
\* is left open.
C18_CellRefContract ==
    /\ CellRefReturned /\ ~RowBeyondU32(Trim(arg)) =>
          IF WellFormedRef(Trim(arg))
          THEN out.r = CellOk(MagDec(DigitsOf(RefRow(Trim(arg)))),
                              ColumnIndex(RefLetters(Trim(arg))))
          ELSE out.r = CellErr
    /\ CellRangeReturned /\ out.r.ok =>
          /\ Len(SplitColon(arg, <<>>)) = 2
          /\ WellFormedRef(Trim(SplitColon(arg, <<>>)[1]))
          /\ WellFormedRef(Trim(SplitColon(arg, <<>>)[2]))

\* ZZZZ1 has column index 475253; where the overflow wraps, it is returned
\* as row 0 of column 16501
C18_WrappedColumn ==
    /\ CellRefReturned
    /\ arg = <<"Z", "Z", "Z", "Z", "1">>
    /\ out.r = CellOk(<<0>>, 16501)

\* the characters of the values and one separator between two values
CombinedLength(values) ==
    LET RECURSIVE Chars(_)
        Chars(vs) == IF vs = <<>> THEN 0 ELSE Len(Head(vs)) + Chars(Tail(vs))
    IN  Chars(values) + (IF values = <<>> THEN 0 ELSE Len(values) - 1)

ListValidationReturned == fpc = "done" /\ out.fn = "list_validation"

\* C19: a list validation of a matched column fails with the error naming
\* the 255 limit if and only if the characters of its values, with one
\* separator between consecutive values, are more than 255
C19_LimitCountsCharacters ==
    ListValidationReturned =>
        /\ out.r.names_limit <=> CombinedLength(arg) > 255
        /\ CombinedLength(arg) <= 255 => out.r.ok

\* one value of 128 two-byte characters is refused
C19_TwoByteCharactersRefused ==
    /\ ListValidationReturned
    /\ arg = <<Repeated("é", 128)>>
    /\ CombinedLength(arg) = 128
    /\ out.r.names_limit

\* '#' and exactly six hexadecimal digits
SixHexDigits(t) ==
    /\ Len(t) = 7
    /\ t[1] = "#"
    /\ \A i \in 2..7 : IsHexDigit(t[i])

\* the names of the table that differ from t in the case of letters only
NamedAs(t) ==
    {n \in 1..Len(NamedColors) :
        /\ Len(NamedColors[n][1]) = Len(t)
        /\ \A i \in 1..Len(t) :
              \/ t[i] = NamedColors[n][1][i]
              \/ /\ IsIn(UpperLetters, t[i])
                 /\ LowerLetters[IndexIn(UpperLetters, t[i])] = NamedColors[n][1][i]}

ColorReturned == fpc = "done" /\ out.fn = "parse_color"

\* C20: parse_color returns Ok exactly when the trimmed input is '#' and
\* six hexadecimal digits, with the value 0xRRGGBB, or one of the sixteen
\* names in any case, with the value of the table; every other input is an
\* error
C20_ColorContract ==
    ColorReturned =>
        IF SixHexDigits(Trim(arg))
        THEN out.r = [ok |-> TRUE, v |-> HexFold(Tail(Trim(arg)), 0)]
        ELSE IF NamedAs(Trim(arg)) # {}
        THEN \E n \in NamedAs(Trim(arg)) : out.r = [ok |-> TRUE, v |-> NamedColors[n][2]]
        ELSE ~out.r.ok

\* '#', a plus sign and five digits is read as 0x012345
C20_SignedHexAccepted ==
    /\ ColorReturned
    /\ arg = <<"#", "+", "1", "2", "3", "4", "5">>
    /\ out.r = [ok |-> TRUE, v |-> 74565]

(***************************************************************************)
(* The worksheet of a frame: widths, header, table, formula columns and    *)
(* the pair returned                                                       *)
(***************************************************************************)
\* the column-width block has returned Ok
WidthsApplied == wpc = "save" \/ (wpc = "done" /\ stats.ok)

DataColumns == 0..(Len(frame.columns) - 1)

HeaderCellsWritten ==
    /\ wpc \notin {"idle", "header"}
    /\ \E at \in DOMAIN ws.cells :
          at[2] \in DataColumns /\ ws.cells[at].kind = "header"

\* C22: the pipeline writes header cells only when header inclusion is on
\* and no table style is configured; with a table style it writes none
C22_NoHeaderCellsWithTable ==
    HeaderCellsWritten => frame.include_header /\ ~frame.table_style

\* a table style and header inclusion: the header cell of column 0 is
\* written before the rows
C22_HeaderWrittenUnderTable ==
    /\ wpc = "rows"
    /\ frame.entry = "convert_dataframe_to_xlsx"
    /\ frame.table_style /\ frame.include_header
    /\ <<0, 0>> \in DOMAIN ws.cells
    /\ ws.cells[<<0, 0>>] = HeaderCell(<<"a">>)

\* C23: a table is registered only with a table style and at least one
\* data row; its region is rows 0..last written row by columns
\* 0..(data column count - 1), with first row <= last row
C23_TableRegion ==
    wpc \notin {"idle", "header", "rows"} =>
        /\ ws.tables # <<>> => frame.table_style /\ frame.row_count >= 1
        /\ frame.row_count = 0 => ws.tables = <<>>
        /\ \A n \in 1..Len(ws.tables) :
              /\ ws.tables[n] = [first_row |-> 0, first_col |-> 0,
                                 last_row |-> locals.row_idx - 1,
                                 last_col |-> Len(frame.columns) - 1]
              /\ ws.tables[n].first_row <= ws.tables[n].last_row

\* a frame of two rows and no column: the table covers column 0
C23_TableOnFrameWithoutColumns ==
    /\ wpc = "formula_columns"
    /\ frame.columns = <<>> /\ frame.row_count = 2
    /\ Len(ws.tables) = 1
    /\ ws.tables[1].last_col = 0

\* the first place where from occurs in s, or 0
FirstAt(s, from) ==
    LET places == {i \in 1..(Len(s) - Len(from) + 1) :
                      SubSeq(s, i, i + Len(from) - 1) = from}
    IN  IF places = {} THEN 0 ELSE CHOOSE i \in places : \A j \in places : i <= j

\* the template with every "{row}" replaced by the decimal text of n
RECURSIVE Substituted(_, _)
Substituted(template, n) ==
    IF FirstAt(template, RowPlaceholder) = 0 THEN template
    ELSE SubSeq(template, 1, FirstAt(template, RowPlaceholder) - 1)
         \o U32ToString(n)
         \o Substituted(SubSeq(template, FirstAt(template, RowPlaceholder) + 5,
                                Len(template)), n)

\* apply_formula_columns has been called on a worksheet held in memory and
\* has returned Ok
FormulasApplied ==
    /\ wpc \in {"column_widths", "save"} \/ (wpc = "done" /\ stats.ok)
    /\ ~frame.constant_memory
    /\ frame.formula_columns.some
    /\ frame.formula_columns.v # <<>>
    /\ frame.row_count > 0

DataRows ==
    (IF frame.include_header THEN 1 ELSE 0) .. (locals.row_idx - 1)

\* C24: the k-th declared formula (k from 0) is in column (data column
\* count + k); for every data row r the cell (r, that column) finally holds
\* the template with every "{row}" replaced by the decimal text of r + 1;
\* no data column is overwritten; the number of declared formulas is
\* returned
C24_FormulaColumnsPlaced ==
    FormulasApplied =>
        /\ \A k \in 1..Len(frame.formula_columns.v) : \A r \in DataRows :
              /\ <<r, Len(frame.columns) + k - 1>> \in DOMAIN ws.cells
              /\ ws.cells[<<r, Len(frame.columns) + k - 1>>] =
                    FormulaCell(Substituted(frame.formula_columns.v[k][2], r + 1))
        /\ \A r \in DataRows : \A c \in DataColumns :
              ws.cells[<<r, c>>] =
                  DataCell(r - (IF frame.include_header THEN 1 ELSE 0), c)
        /\ frame.include_header =>
              \A c \in DataColumns : ws.cells[<<0, c>>] = HeaderCell(frame.columns[c + 1])
        /\ locals.total_col_count - Len(frame.columns) = Len(frame.formula_columns.v)

\* two formulas on a frame of two columns and two rows under a header: the
\* second row of the first formula column holds ={row}+{row} for row 3
C24_TwoFormulasTwoRows ==
    /\ FormulasApplied
    /\ frame.include_header
    /\ Len(frame.columns) = 2 /\ frame.row_count = 2
    /\ Len(frame.formula_columns.v) = 2
    /\ ws.cells[<<2, 2>>] = FormulaCell(<<"=", "3", "+", "3">>)
    /\ ws.cells[<<1, 3>>] = FormulaCell(<<"=", "{", "2", "r", "o", "w", "}">>)

\* the columns after the data columns that hold a formula
FormulaColumnsWritten ==
    {at[2] : at \in {a \in DOMAIN ws.cells : ws.cells[a].kind = "formula"}}

\* C25: the pair returned is (data rows written, plus 1 under header
\* inclusion; data columns plus formula columns written)
C25_ReturnsRowsAndColumns ==
    wpc = "done" /\ stats.ok =>
        /\ stats.rows = frame.row_count + (IF frame.include_header THEN 1 ELSE 0)
        /\ stats.cols = Len(frame.columns) + Cardinality(FormulaColumnsWritten)

\* a frame of two rows and two columns, with header, without formulas:
\* (3, 2)
C25_ThreeRowsTwoColumns ==
    /\ wpc = "done"
    /\ frame.entry = "convert_dataframe_to_xlsx"
    /\ frame.row_count = 2 /\ Len(frame.columns) = 2
    /\ frame.include_header
    /\ ~frame.formula_columns.some
    /\ stats = Ok(3, 2)

\* C28: with autofit and a sink held in memory the worksheet is autofitted
\* in the column-width step, with or without a column_widths map; with
\* widths for some columns and no "_all", the other columns are fitted
C28_AutofitWithAnyWidths ==
    WidthsApplied /\ frame.autofit /\ ~frame.constant_memory =>
        /\ ws.autofit_calls >= 1
        /\ frame.column_widths.some /\ ~HasKey(frame.column_widths.v, AllKey) =>
              \A c \in DataColumns :
                  /\ ~HasKey(frame.column_widths.v, U32ToString(c))
                  /\ \E at \in DOMAIN ws.cells : at[2] = c
                  => FinalWidth(ws, c).how = "fitted"

\* autofit and a width for column 0 only: no autofit call, column 1 keeps
\* the default width
C28_WidthsWithoutAllSkipAutofit ==
    /\ WidthsApplied
    /\ frame.autofit /\ ~frame.constant_memory
    /\ frame.column_widths = Some(<< <<(<<"0">>), 10>> >>)
    /\ Len(frame.columns) = 2 /\ frame.row_count = 2
    /\ ws.autofit_calls = 0
    /\ FinalWidth(ws, 0) = [how |-> "set", width |-> 10]
    /\ FinalWidth(ws, 1).how = "default"

(***************************************************************************)
(* The column format of a data cell                                        *)
(***************************************************************************)
\* write_py_value_with_format has written a cell of a column with a format
FormattedColumnCellWritten ==
    /\ pc = "written"
    /\ writer = "convert::write_py_value_with_format"
    /\ column_format # NoFormat
    /\ sink.op # "panic"

\* C27: in a column whose name matches a column-format pattern every data
\* cell is written with the column's format, whatever the kind of its
\* value; for dates and datetimes in place of the generic format
C27_ColumnFormatOnEveryKind ==
    FormattedColumnCellWritten => sink.fmt = column_format

\* True in a column with a format is written by write_boolean, without it
C27_BooleanWithoutColumnFormat ==
    /\ FormattedColumnCellWritten
    /\ pyval = PyBoolValue(TRUE)
    /\ sink = WriteBoolean(TRUE)
    /\ sink.fmt = NoFormat

(***************************************************************************)
(* The two CSV converters on the same file                                 *)
(***************************************************************************)
SameWrite(a, b) ==
    /\ a.row = b.row
    /\ a.col = b.col
    /\ SameCell(a.cell, b.cell)
    /\ a.call.op = b.call.op

\* the length of the longest record of the file, 0 for an empty file
LongestRecord ==
    IF records = <<>> THEN 0
    ELSE CHOOSE n \in 0..3 :
             /\ \E r \in 1..Len(records) : Len(records[r]) = n
             /\ \A r \in 1..Len(records) : Len(records[r]) <= n

\* C26: on a file that parses without error, under every date order, both
\* converters issue the same set of (row, column, classified value) cell
\* writes and return the same pair (number of records, longest record)
C26_SameWritesSamePair ==
    qpc = "done" /\ rets.sequential.ok =>
        /\ \A k \in 1..Len(seq.written) :
              \E l \in 1..Len(written) : SameWrite(seq.written[k], written[l])
        /\ \A l \in 1..Len(written) :
              \E k \in 1..Len(seq.written) : SameWrite(seq.written[k], written[l])
        /\ rets.parallel = rets.sequential
        /\ rets.parallel = Ok(Len(records), LongestRecord)

\* two records of three fields: Integer, Date, Boolean and three Empty;
\* both return (2, 3)
C26_TwoRecordsOfThreeFields ==
    /\ qpc = "done"
    /\ Len(records) = 2
    /\ Len(records[1]) = 3 /\ Len(records[2]) = 3
    /\ seq.written[1].cell.kind = "Integer"
    /\ seq.written[2].cell.kind = "Date"
    /\ seq.written[3].cell.kind = "Boolean"
    /\ \A k \in 4..6 : written[k].cell.kind = "Empty"
    /\ rets.sequential = Ok(2, 3)
    /\ rets.parallel = Ok(2, 3)

\* two calls of the worksheet write the same kind of cell with the same value
SameCall(a, b) ==
    /\ a.op = b.op
    /\ a.op # "panic" => a.v = b.v /\ a.fmt = b.fmt

CliWrote == pc = "written" /\ writer = "main::write_value"

\* C29, as claimed: for every CSV field and every date order, the cell the
\* command-line binary writes is a cell the library's sequential path
\* (parse_value, then write_cell) writes for the same field
C29_CliWritesAsLibrary ==
    CliWrote => \E call \in write_cell(parse_value(raw, date_order)) : SameCall(sink, call)

\* the field 2024-01-13 under the default order: the library classifies it as
\* a Date and writes a formatted number, the binary writes the text
C29_CliWritesDateAsText ==
    /\ CliWrote
    /\ raw = <<"2", "0", "2", "4", "-", "0", "1", "-", "1", "3">>
    /\ date_order = "Auto"
    /\ parse_value(raw, date_order).kind = "Date"
    /\ sink = WriteString(raw, NoFormat)

\* NaiveDate::succ_opt: the following calendar day
NextDay(date) ==
    IF date.d < DaysInMonth(date.y, date.m) THEN [date EXCEPT !.d = date.d + 1]
    ELSE IF date.m < 12 THEN [date EXCEPT !.m = date.m + 1, !.d = 1]
    ELSE [y |-> date.y + 1, m |-> 1, d |-> 1]

\* a is an earlier calendar day than b
DateBefore(a, b) ==
    \/ a.y < b.y
    \/ a.y = b.y /\ a.m < b.m
    \/ a.y = b.y /\ a.m = b.m /\ a.d < b.d

\* the greatest whole number of days not above the serial
IntegerPart(serial) == serial.days + serial.secs \div 86400

SerialOfDateReturned == fpc = "done" /\ out.fn = "naive_date_to_excel"

SerialOfDateTimeReturned == fpc = "done" /\ out.fn = "naive_datetime_to_excel"

\* C30: naive_date_to_excel returns a whole number of days, 0 for 1899-12-30
\* and 2 for 1900-01-01; the following calendar day gets exactly one more,
\* and an earlier date always gets a smaller serial.  naive_datetime_to_excel
\* returns the serial of the date plus seconds / 86400 with 0 <= seconds <
\* 86400, so that its integer part is the serial of the date.
C30_SerialsCountDays ==
    /\ SerialOfDateReturned =>
          /\ out.r.secs = 0
          /\ arg = [y |-> 1899, m |-> 12, d |-> 30] => out.r.days = 0
          /\ arg = [y |-> 1900, m |-> 1, d |-> 1] => out.r.days = 2
          /\ naive_date_to_excel(NextDay(arg)) = out.r.days + 1
          /\ \A other \in NaiveDates :
                DateBefore(arg, other) => out.r.days < naive_date_to_excel(other)
    /\ SerialOfDateTimeReturned =>
          /\ out.r.days = naive_date_to_excel(arg.date)
          /\ out.r.secs = arg.secs
          /\ 0 <= out.r.secs /\ out.r.secs < 86400
          /\ IntegerPart(out.r) = naive_date_to_excel(arg.date)

\* 1900-01-01 at 23:59:59: serial 2 + 86399/86400, whose integer part is 2
C30_LastSecondOfNewYear1900 ==
    /\ SerialOfDateTimeReturned
    /\ arg = [date |-> [y |-> 1900, m |-> 1, d |-> 1], secs |-> 86399]
    /\ out.r = Serial(2, 86399)
    /\ IntegerPart(out.r) = 2

=============================================================================
